---- MODULE Spec2Model ----
(***************************************************************************)
(* Model of src/mcp_server.py: the MuleSoftExchangeClient engine.          *)
(*                                                                         *)
(* The program is an asyncio server: one task runs at a time until it      *)
(* awaits network I/O.  `cpu` names the task that is running synchronous   *)
(* code, or Free when the event loop is idle; a waiting task resumes       *)
(* only when the loop is idle.  Every coroutine is a sequence of labels on *)
(* the per-task control stack `pc`; the head of the stack is the current   *)
(* label, a call pushes labels and a return pops one.                      *)
(*                                                                         *)
(* Python's None and absent dictionary keys are the empty sequence <<>>;   *)
(* a present value x is <<x>>.  Text is a sequence of one-character        *)
(* strings; fixed fragments of a logged line are single elements.          *)
(***************************************************************************)
EXTENDS Integers, Sequences, FiniteSets, TLC

\* ---------------------------------------------------------------- bounds
NumTasks == 2
MaxTicks == 2
TickLen == 200
MaxTokenRequests == 3
MaxAssets == 2
MaxFiles == 2
MaxTextLen == 24
MaxMembers == 2
MaxEntries == 3
MaxMethods == 2

\* ------------------------------------------------------ program constants
ExpiryBuffer == 300
DefaultExpiresIn == 3600
TokenMaskLen == 20
SecretMaskLen == 8

None == <<>>
Some(x) == <<x>>

\* Task 0 is main(); tasks 1..NumTasks are concurrent tool invocations.
Main == 0
Tasks == 1..NumTasks
Procs == {Main} \cup Tasks
Free == Main - 1

\* ------------------------------------------------------------------ text
HexChars == <<"0", "1", "2", "3", "4", "5", "6", "7", "8", "9", "a", "b", "c", "d", "e", "f">>

HexText(n) == [i \in 1..n |-> HexChars[((i - 1) % Len(HexChars)) + 1]]

\* What the identity provider may hand out.
IdpTokens == {HexText(n) : n \in {TokenMaskLen, TokenMaskLen + 1}}
ExpiresIns == {450}

\* os.getenv('CLIENT_SECRET', 'apreencher') when the variable is not set.
DefaultSecret == <<"a", "p", "r", "e", "e", "n", "c", "h", "e", "r">>

\* The texts a token or a secret is drawn from where only its logging is checked.
Texts == {HexText(n) : n \in 1..MaxTextLen}

Prefix(s, n) == SubSeq(s, 1, IF Len(s) < n THEN Len(s) ELSE n)

Ellipsis == <<".", ".", ".">>

\* An f-string's rendering of a token: None prints as the text None.
Str(tok) == IF tok = None THEN <<"N", "o", "n", "e">> ELSE tok[1]

\* value.split('Bearer ')[-1]: what follows the last "Bearer " fragment.
RECURSIVE AfterBearer(_)
AfterBearer(value) ==
    IF \E i \in 1..Len(value) : value[i] = "Bearer "
    THEN AfterBearer(Tail(value))
    ELSE value

MaskedAuthorization(value) ==
    <<"Bearer ">> \o Prefix(AfterBearer(value), TokenMaskLen) \o Ellipsis

MaskedSecret(secret) == Prefix(secret, SecretMaskLen) \o Ellipsis

\* _log_curl_command for a request with an Authorization header and no body.
CurlGet(url, headers) ==
    <<"curl -X GET -H \"Authorization: ">> \o MaskedAuthorization(headers.Authorization)
        \o <<"\" -H \"Content-Type: application/json\" ">> \o url

\* _log_curl_command as authenticate calls it: the body is masked_data.
CurlToken(client_secret_) ==
    <<"curl -X POST -H \"Content-Type: application/x-www-form-urlencoded\" -d '{\"client_secret\":\"">>
        \o MaskedSecret(client_secret_)
        \o <<"\",\"grant_type\":\"client_credentials\"}' \"/accounts/api/v2/oauth2/token\"">>

\* ----------------------------------------------------------------- state
VARIABLES
    access_token,       \* Session: None or Some(token text)
    token_expires_at,   \* Session: None or Some(seconds)
    client_secret,      \* CLIENT_SECRET of the environment
    remote,             \* what the remote services may answer: [grants, lists,
                        \* odd, docs, faults, up, down, archives, legacy], and
                        \* packed: the documents its archives were made from
    now,                \* datetime.now(), in seconds
    cpu,                \* the task running synchronous code, or Free
    pc,                 \* per task: its control stack of labels
    loc,                \* per task: its local variables and return registers
    tokenRequests,      \* token requests sent to the identity provider
    trail               \* per task: what its operation did so far, in order

vars == <<access_token, token_expires_at, client_secret, remote, now, cpu, pc, loc,
          tokenRequests, trail>>

session == <<access_token, token_expires_at>>
env == <<client_secret, remote>>

MaxNow == MaxTicks * TickLen

\* ------------------------------------------------------------ data model
\* The identity every operation of the model asks for.
GroupId == "g1"
AssetId == "a1"

Versions == {"2.0.0", "3.0.0"}
VersionOpts == {None} \cup {Some(v) : v \in Versions}
DefaultVersion == "1.0.0"

SeqsUpTo(S, n) == UNION {[1..k -> S] : k \in 0..n}

\* The classifiers get_asset_specification looks for, in its order.
PriorityOrder == <<"oas", "fat-oas", "raml", "fat-raml">>

\* An externalLink is named after what is behind it: a live link serves the
\* file, a dead one does not; the empty text is no link.
FileDescriptors ==
    [classifier : {"oas", "raml"}, packaging : {"zip", "json"},
     externalLink : {"live", "dead"}, mainFile : {""}]
    \cup [classifier : {"oas", "raml"}, packaging : {"zip"},
          externalLink : {""}, mainFile : {""}]

FileLists == SeqsUpTo(FileDescriptors, MaxFiles)

\* Asset dictionaries as the search endpoint lists them.
Summaries ==
    [groupId : {GroupId, "g2"}, assetId : {AssetId}, version : VersionOpts,
     files : {None, Some(<<[classifier |-> "oas", packaging |-> "zip",
                            externalLink |-> "live", mainFile |-> ""]>>)}]

AssetLists == SeqsUpTo(Summaries, MaxAssets)

\* Asset dictionaries as a detail endpoint answers them.
DetailDocs ==
    [groupId : {GroupId}, assetId : {AssetId}, version : VersionOpts,
     files : {None} \cup {Some(fl) : fl \in FileLists}]

\* ------------------------------------------------------------- responses
\* The identity provider's answers to a token request (spec section 6:
\* a success carries access_token and may omit expires_in).
Grants == [access_token : IdpTokens, expires_in : {None} \cup {Some(e) : e \in ExpiresIns}]

\* HTTP 200 with a JSON object that is not what section 6 describes: one
\* without access_token, one whose expires_in is not a number.
OddTokenResponses ==
    {[kind |-> "no_access_token", access_token |-> <<>>, expires_in |-> g.expires_in] :
        g \in remote.grants}
    \cup {[kind |-> "bad_expires_in", access_token |-> g.access_token, expires_in |-> None] :
             g \in remote.grants}

TokenResponses ==
    {[kind |-> "ok", access_token |-> g.access_token, expires_in |-> g.expires_in] :
        g \in remote.grants}
    \cup [kind : {"status_error", "transport_error"}, access_token : {<<>>}, expires_in : {None}]
    \cup {r \in OddTokenResponses : r.kind \in remote.faults}

Faults == {"bad_json", "status_error", "transport_error"}

\* JSON values as response.json() decodes them: arrays, objects (a function
\* from the keys present to their values), null and numbers.
JsonArray(elems) == [json |-> "array", elems |-> elems]
JsonObject(members) == [json |-> "object", members |-> members]
JsonNull == [json |-> "null"]
JsonNumber == [json |-> "number"]

\* The search endpoint answers 200 with a JSON body, the bare array of one of
\* remote.lists or one of the bodies of remote.odd, or it fails.
SearchResponses ==
    [kind : {"ok"}, data : {JsonArray(l) : l \in remote.lists} \cup remote.odd]
    \cup [kind : (remote.faults \cap Faults) \ {"bad_json"}, data : {JsonNull}]

\* ok: HTTP 200 with a JSON body; bad_json: HTTP 200 whose body json() rejects.
\* Detail endpoint ep answers with the asset when it is up and with a
\* failure when it is down; it may be both.
DetailResponses(ep) ==
    [kind : IF ep \in remote.up THEN {"ok"} ELSE {}, body : {Some(d) : d \in remote.docs}]
    \cup [kind : IF ep \in remote.down THEN remote.faults \cap Faults ELSE {}, body : {None}]

\* Texts are sequences of tokens.  The JSON text of a document is "{", then
\* if it has paths the key "paths" followed by each path and the method keys
\* under it, then "}"; a path or a method key may come more than once.
PathOrder == <<"/accounts", "/accounts/{id}", "/users/{userId}">>
MethodOrder == <<"get", "GET", "post", "put", "patch", "delete", "options">>
PathNames == {PathOrder[i] : i \in DOMAIN PathOrder}
MethodKeys == {MethodOrder[i] : i \in DOMAIN MethodOrder}

\* The text of the document {}, a YAML text, the start of a JSON text.
JsonText == <<"{", "}">>
YamlText == <<"paths:">>
BadJsonText == <<"{">>

\* A str value.
TextValue(text) == [json |-> "string", text |-> text]

\* json.loads(text) returns.
Parses(text) ==
    /\ Len(text) >= 2
    /\ text[1] = "{"
    /\ text[Len(text)] = "}"
    /\ Len(text) > 2
          => /\ text[2] = "paths"
             /\ \A i \in 3..(Len(text) - 1) : text[i] \in PathNames \cup MethodKeys
             /\ Len(text) > 3 => text[3] \in PathNames

\* json.loads losing the member of paths that comes first in the text.
MutLoads(text) ==
    LET under(i) == {text[j] : j \in {k \in (i + 1)..(Len(text) - 1) :
                                         \A l \in (i + 1)..k : text[l] \in MethodKeys}}
        at(p) == CHOOSE i \in 3..(Len(text) - 1) :
                     /\ text[i] = p
                     /\ \A j \in (i + 1)..(Len(text) - 1) : text[j] # p
        paths == {text[i] : i \in 4..(Len(text) - 1)} \cap PathNames
    IN  IF Len(text) = 2 THEN JsonObject(<<>>)
        ELSE JsonObject([key \in {"paths"} |->
                 JsonObject([p \in paths \ {text[3]} |->
                     JsonObject([m \in under(at(p)) |-> JsonObject(<<>>)])])])

\* What json.loads(text) returns: of several members with one key, the dict
\* holds the last.
Loads(text) ==
    LET at(p) == CHOOSE i \in 3..(Len(text) - 1) :
                     /\ text[i] = p
                     /\ \A j \in (i + 1)..(Len(text) - 1) : text[j] # p
        under(i) == {text[j] : j \in {k \in (i + 1)..(Len(text) - 1) :
                                         \A l \in (i + 1)..k : text[l] \in MethodKeys}}
        paths == {text[i] : i \in 3..(Len(text) - 1)} \cap PathNames
    IN  IF Len(text) = 2 THEN JsonObject(<<>>)
        ELSE JsonObject([key \in {"paths"} |->
                 JsonObject([p \in paths |->
                     JsonObject([m \in under(at(p)) |-> JsonObject(<<>>)])])])

\* The JSON text of a document, the keys in the order of PathOrder and
\* MethodOrder.
Dumps(doc) ==
    LET paths == doc.members["paths"].members
        item(i) == IF PathOrder[i] \notin DOMAIN paths THEN <<>>
                   ELSE <<PathOrder[i]>>
                        \o SelectSeq(MethodOrder,
                                     LAMBDA m : m \in DOMAIN paths[PathOrder[i]].members)
    IN  IF "paths" \notin DOMAIN doc.members THEN JsonText
        ELSE <<"{", "paths">> \o item(1) \o item(2) \o item(3) \o <<"}">>

\* The entries of a ZIP archive: a name and the text it decodes to.
Members == [name : {"a.txt", "spec.yaml", "spec.json"}, text : {JsonText, YamlText}]
Archives == SeqsUpTo(Members, MaxMembers)

\* Archives with several entries of one extension.
ListedMembers ==
    [name : {"a.txt", "spec.yaml", "api.yml", "spec.json", "api.json"},
     text : {JsonText, YamlText}]
ListedArchives == SeqsUpTo(ListedMembers, MaxEntries)

\* What a GET of an archive's link brings: a ZIP with entries behind a live
\* link; an error, bytes that are no ZIP or an empty ZIP behind a dead one.
ArchiveResponses(link) ==
    IF link = "live"
    THEN [kind : {"zip"}, members : remote.archives]
    ELSE [kind : {"zip", "bad_zip", "status_error", "transport_error"}, members : {<<>>}]

\* What a GET of a plain file's link brings: 200 with a JSON content type
\* and a body that decodes (json) or not (bad_json), 200 with another content
\* type (text), or a failure.
DirectResponses(link) ==
    IF link = "live"
    THEN [kind : {"json", "bad_json", "text"}]
    ELSE [kind : {"status_error", "transport_error"}]

\* The body of a response of each kind.
BodyText(kind) ==
    IF kind = "json" THEN JsonText ELSE IF kind = "bad_json" THEN BadJsonText ELSE YamlText

\* What a GET of a legacy specification endpoint brings: 200 with a JSON
\* content type and a body that decodes (json) or not (bad_json), 200 with
\* another content type (text), or a failure.
LegacyResponses == [kind : remote.legacy]

\* ------------------------------------------------------- control helpers
Top(p) == IF pc[p] = <<>> THEN "idle" ELSE Head(pc[p])
At(p, label) == cpu = p /\ Top(p) = label
Waiting(p, label) == cpu = Free /\ Top(p) = label
Goto(p, labels) == pc' = [pc EXCEPT ![p] = labels \o Tail(pc[p])]
Return(p) == Goto(p, <<>>)

NoLocals ==
    [op |-> "",
     rvAuth |-> None, rvHeaders |-> None, rvAssets |-> None, rvDetails |-> None,
     s_headers |-> None, s_data |-> None,
     d_headers |-> None, d_version |-> None, d_given |-> FALSE, d_assets |-> None,
     d_ep |-> 0, d_stage |-> "",
     rvSpec |-> None,
     x_link |-> "", x_classifier |-> "", x_main |-> "", x_zip |-> None,
     g_headers |-> None, g_version |-> None, g_given |-> FALSE, g_files |-> None,
     g_pos |-> 0, g_ep |-> 0, g_stage |-> "",
     a_spec |-> None, a_out |-> None]

\* The trail of a task: its _ensure_authenticated calls and its requests, each
\* request with what it carried, what was logged for it and how it was answered.
Catalog == {"search", "detail", "spec"}

Entry(kind, url, status, bearer, usable, curl) ==
    [kind |-> kind, url |-> url, status |-> status, bearer |-> bearer, usable |-> usable,
     curl |-> curl, body |-> None]

Record(p, entry) == trail' = [trail EXCEPT ![p] = trail[p] \o <<entry>>]

\* A catalog request leaves: it is logged, then sent with `headers`.
Sent(p, kind, url, headers) ==
    Record(p, Entry(kind, url, "pending", headers.token,
                    headers.token # None /\ headers.exp # None /\ now < headers.exp[1],
                    CurlGet(url, headers)))

\* ok: HTTP 200 and a body that decodes; bad_json: HTTP 200 and one that does
\* not; failed: another status, or no response at all.
Outcome(kind) ==
    IF kind \in {"ok", "json", "text", "zip", "no_access_token", "bad_expires_in"} THEN "ok"
    ELSE IF kind = "bad_json" THEN kind ELSE "failed"

\* What the trail keeps of a specification body that came with HTTP 200:
\* the kind of the response.
Http200Body(kind) == IF kind \in {"json", "bad_json", "text"} THEN Some(kind) ELSE None

Answered(p, kind, body) ==
    trail' = [trail EXCEPT ![p] = [trail[p] EXCEPT ![Len(trail[p])].status = Outcome(kind),
                                                   ![Len(trail[p])].body = body]]

\* ------------------------------------------------------- Session Manager
Falsy(opt) == opt = None \/ opt[1] = <<>>

\* A renewal that starts a buffer early a second time.
MutNeedsAuth ==
    Falsy(access_token)
        \/ (token_expires_at # None /\ now >= token_expires_at[1] - ExpiryBuffer)

\* The condition of _ensure_authenticated.
NeedsAuth ==
    Falsy(access_token) \/ (token_expires_at # None /\ now >= token_expires_at[1])

\* A token is held and the clock is before its stored expiry.
Fresh == access_token # None /\ token_expires_at # None /\ now < token_expires_at[1]

\* _ensure_authenticated: it awaits authenticate as its last statement and
\* drops the value, so authenticate returns straight to the caller of
\* _ensure_authenticated; rvAuth keeps what authenticate returned.
EnsureAuthenticated(p) ==
    /\ At(p, "ensure")
    /\ Record(p, Entry("ensure", <<>>, IF Fresh THEN "fresh" ELSE "stale", None, TRUE, <<>>))
    /\ IF NeedsAuth
       THEN Goto(p, <<"authenticate">>)
       ELSE Return(p)
    /\ loc' = [loc EXCEPT ![p].rvAuth = None]
    /\ UNCHANGED <<session, env, now, cpu, tokenRequests>>

TokenUrl == <<"/accounts/api/v2/oauth2/token">>

\* authenticate, up to the await of the token request.
Authenticate(p) ==
    /\ At(p, "authenticate")
    /\ tokenRequests < MaxTokenRequests
    /\ Record(p, Entry("token", TokenUrl, "pending", None, TRUE, CurlToken(client_secret)))
    /\ tokenRequests' = tokenRequests + 1
    /\ Goto(p, <<"auth_wait">>)
    /\ cpu' = Free
    /\ UNCHANGED <<session, env, now, loc>>

\* Line 127 without the buffer.
MutStoredExpiry(t, expires_in) == t + expires_in

\* Line 127: datetime.now() + timedelta(seconds=expires_in - 300).
StoredExpiry(t, expires_in) == t + expires_in - ExpiryBuffer

\* A failure that drops the token held.
MutAuthFailure == <<None, token_expires_at>>

\* The except branch of authenticate assigns nothing: the Session it leaves.
AuthFailure == <<access_token, token_expires_at>>

\* authenticate, from the token response on; rvAuth is what it returns.
\* Line 125 assigns token_data.get('access_token'), None when the key is
\* missing; line 127 raises for an expires_in that is not a number, after
\* line 125 has assigned.  The trail keeps the expires_in of a 200 response.
AuthResponse(p) ==
    /\ Waiting(p, "auth_wait")
    /\ \E r \in TokenResponses :
        /\ Answered(p, r.kind, IF Outcome(r.kind) = "ok" THEN Some(r.expires_in) ELSE None)
        /\ IF r.kind \in {"ok", "no_access_token"}
           THEN /\ access_token' = IF r.kind = "ok" THEN Some(r.access_token) ELSE None
                /\ token_expires_at' =
                       Some(StoredExpiry(now, IF r.expires_in = None THEN DefaultExpiresIn
                                              ELSE r.expires_in[1]))
                /\ loc' = [loc EXCEPT ![p].rvAuth = Some(TRUE)]
           ELSE IF r.kind = "bad_expires_in"
           THEN /\ access_token' = Some(r.access_token)
                /\ token_expires_at' = token_expires_at
                /\ loc' = [loc EXCEPT ![p].rvAuth = Some(FALSE)]
           ELSE /\ access_token' = AuthFailure[1]
                /\ token_expires_at' = AuthFailure[2]
                /\ loc' = [loc EXCEPT ![p].rvAuth = Some(FALSE)]
    /\ Return(p)
    /\ cpu' = p
    /\ UNCHANGED <<env, now, tokenRequests>>

\* The headers get_headers builds; token and exp record the Session they
\* were built from (history, not sent).
Headers ==
    [Authorization |-> <<"Bearer ">> \o Str(access_token),
     token |-> access_token, exp |-> token_expires_at]

\* get_headers after _ensure_authenticated has returned.
GetHeaders(p) ==
    /\ At(p, "headers")
    /\ loc' = [loc EXCEPT ![p].rvHeaders = Some(Headers), ![p].rvAuth = None]
    /\ Return(p)
    /\ UNCHANGED <<session, env, now, cpu, tokenRequests, trail>>

CallGetHeaders == <<"ensure", "headers">>

\* main() after its authenticate: the server runs only when it succeeded.
MainReturn ==
    /\ At(Main, "main_ret")
    /\ pc' = [pc EXCEPT ![Main] = IF loc[Main].rvAuth = Some(TRUE) THEN <<"serving">>
                                  ELSE <<"exited">>]
    /\ loc' = [loc EXCEPT ![Main] = NoLocals]
    /\ trail' = [trail EXCEPT ![Main] = <<>>]
    /\ cpu' = Free
    /\ UNCHANGED <<session, env, now, tokenRequests>>

Serving == Top(Main) = "serving"

\* Time passes while the event loop is idle.
Tick ==
    /\ cpu = Free
    /\ now < MaxNow
    /\ now' = now + TickLen
    /\ UNCHANGED <<session, env, cpu, pc, loc, tokenRequests, trail>>

\* --------------------------------------------------------- Registry Search
SearchUrl(term) == <<"v2", "assets", "?search=", term>>

CallSearchAssets == CallGetHeaders \o <<"search_send", "search_wait">>

\* search_assets from get_headers' return to the await of the GET.
SearchSend(p) ==
    /\ At(p, "search_send")
    /\ loc' = [loc EXCEPT ![p].s_headers = loc[p].rvHeaders, ![p].rvHeaders = None]
    /\ Sent(p, "search", SearchUrl(AssetId), loc[p].rvHeaders[1])
    /\ Return(p)
    /\ cpu' = Free
    /\ UNCHANGED <<session, env, now, tokenRequests>>

\* The keys of lines 210-216 without the last one.
MutEnvelopeKeysShort == <<"assets", "data">>

\* The keys of lines 210-216 with the first two swapped.
MutEnvelopeKeysSwapped == <<"data", "assets", "items">>

\* The keys search_assets probes a dict for, in its order.
EnvelopeKeys == <<"assets", "data", "items">>

\* `assets` as the isinstance chain leaves it: the array itself, the value
\* under the first envelope key the dict has, [data] for a dict with none of
\* them unless it is empty, [] for what is neither a list nor a dict.
Unwrapped(data) ==
    IF data.json = "array" THEN data
    ELSE IF data.json = "object"
    THEN LET has == {i \in DOMAIN EnvelopeKeys : EnvelopeKeys[i] \in DOMAIN data.members}
         IN  IF has # {}
             THEN data.members[EnvelopeKeys[CHOOSE i \in has : \A j \in has : i <= j]]
             ELSE JsonArray(IF DOMAIN data.members # {} THEN <<data>> ELSE <<>>)
    ELSE JsonArray(<<>>)

\* The except branch of search_assets with something left in the result.
MutSearchFailed == <<JsonNull>>

\* What the except branch of search_assets returns.
SearchFailed == <<>>

\* len(assets) raises for a value that has no length (null, a number), and
\* the except branch takes over; a list is returned as it is.
Normalized(data) ==
    LET assets == Unwrapped(data)
    IN  IF assets.json = "array" THEN assets.elems ELSE SearchFailed

\* search_assets from the response on: the assets, or [] on any failure.
\* s_data keeps the decoded body until the caller takes the result.
SearchResponse(p) ==
    /\ Waiting(p, "search_wait")
    /\ \E r \in SearchResponses :
        /\ loc' = [loc EXCEPT ![p].rvAssets = Some(IF r.kind = "ok" THEN Normalized(r.data)
                                                   ELSE SearchFailed),
                              ![p].s_data = IF r.kind = "ok" THEN Some(r.data) ELSE None,
                              ![p].s_headers = None]
        /\ Answered(p, r.kind, None)
    /\ Return(p)
    /\ cpu' = p
    /\ UNCHANGED <<session, env, now, tokenRequests>>

\* ---------------------------------------------------------- Asset Resolver
Matches(asset) == asset.groupId = GroupId /\ asset.assetId = AssetId

\* asset.get('version', '1.0.0')
VersionOf(asset) == IF asset.version = None THEN DefaultVersion ELSE asset.version[1]

\* The for loop of lines 249-253: the first matching asset sets the version.
RECURSIVE MatchVersion(_)
MatchVersion(assets) ==
    IF assets = <<>> THEN None
    ELSE IF Matches(Head(assets)) THEN Some(VersionOf(Head(assets)))
    ELSE MatchVersion(Tail(assets))

\* The first asset's version, matching or not.
MutResolveVersion(assets) ==
    IF assets # <<>> THEN VersionOf(assets[1]) ELSE DefaultVersion

\* Lines 247-258: the version get_asset_details settles on when given none.
ResolveVersion(assets) ==
    IF assets # <<>>
    THEN IF MatchVersion(assets) # None THEN MatchVersion(assets)[1]
         ELSE VersionOf(assets[1])
    ELSE DefaultVersion

\* detail_endpoints, lines 261-266.
DetailUrl(i, version) ==
    CASE i = 1 -> <<"v2", "assets", GroupId, AssetId, version>>
      [] i = 2 -> <<"v2", "assets", GroupId, AssetId>>
      [] i = 3 -> <<"v1", "assets", GroupId, AssetId, version>>
      [] i = 4 -> <<"v1", "assets", GroupId, AssetId>>

NumDetailEndpoints == 4
Endpoints == 1..NumDetailEndpoints

\* The first asset of the list, matching or not.
MutFirstMatch(assets) == IF assets = <<>> THEN None ELSE Some(assets[1])

\* The loop of lines 287-291: the first matching asset, as the search gave it.
RECURSIVE FirstMatch(_)
FirstMatch(assets) ==
    IF assets = <<>> THEN None
    ELSE IF Matches(Head(assets)) THEN Some(Head(assets))
    ELSE FirstMatch(Tail(assets))

CallGetAssetDetails == CallGetHeaders \o <<"details_begin">>

\* get_asset_details from get_headers' return to the version it works with.
DetailsBegin(p) ==
    /\ At(p, "details_begin")
    /\ loc' = [loc EXCEPT ![p].d_headers = loc[p].rvHeaders, ![p].rvHeaders = None,
                          ![p].d_assets = None, ![p].d_ep = 1, ![p].d_stage = "cascade",
                          ![p].d_given = loc[p].d_version # None,
                          ![p].rvDetails = None]
    /\ IF loc[p].d_version = None
       THEN Goto(p, CallSearchAssets \o <<"details_resolve", "details_try">>)
       ELSE Goto(p, <<"details_try">>)
    /\ UNCHANGED <<session, env, now, cpu, tokenRequests, trail>>

\* Lines 246-258, after the search has returned.
DetailsResolve(p) ==
    /\ At(p, "details_resolve")
    /\ loc' = [loc EXCEPT ![p].d_assets = loc[p].rvAssets, ![p].rvAssets = None,
                          ![p].s_data = None,
                          ![p].d_version = Some(ResolveVersion(loc[p].rvAssets[1]))]
    /\ Return(p)
    /\ UNCHANGED <<session, env, now, cpu, tokenRequests, trail>>

\* One iteration of the loop of line 270 up to the await of the GET, or the
\* call of search_assets once the list is exhausted.
DetailsTry(p) ==
    /\ At(p, "details_try")
    /\ IF loc[p].d_ep <= NumDetailEndpoints
       THEN /\ Sent(p, "detail", DetailUrl(loc[p].d_ep, loc[p].d_version[1]),
                    loc[p].d_headers[1])
            /\ Goto(p, <<"details_wait">>)
            /\ cpu' = Free
            /\ loc' = loc
       ELSE /\ Goto(p, CallSearchAssets \o <<"details_fallback">>)
            /\ loc' = [loc EXCEPT ![p].d_stage = "fallback", ![p].d_assets = None]
            /\ UNCHANGED <<trail, cpu>>
    /\ UNCHANGED <<session, env, now, tokenRequests>>

\* A loop over endpoints that asks the same endpoint again.
MutNextEndpoint(ep) == ep

\* `for endpoint in ...` of lines 270 and 469: the endpoint after this one.
NextEndpoint(ep) == ep + 1

\* A cascade that goes on after a 200.
MutStopsAt(kind) == FALSE

\* Lines 275-278: a 200 whose body json() decodes ends get_asset_details.
StopsAt(kind) == kind = "ok"

\* The response of a detail endpoint: return its body, or go on to the next.
DetailsResponse(p) ==
    /\ Waiting(p, "details_wait")
    /\ \E r \in DetailResponses(loc[p].d_ep) :
        /\ Answered(p, r.kind, r.body)
        /\ IF StopsAt(r.kind)
           THEN /\ loc' = [loc EXCEPT ![p].rvDetails = Some(r.body), ![p].d_headers = None,
                                      ![p].d_assets = None, ![p].d_stage = "found"]
                /\ Return(p)
           ELSE /\ loc' = [loc EXCEPT ![p].d_ep = NextEndpoint(loc[p].d_ep)]
                /\ Goto(p, <<"details_try">>)
    /\ cpu' = p
    /\ UNCHANGED <<session, env, now, tokenRequests>>

\* Lines 286-294, after the second search has returned.
DetailsFallback(p) ==
    /\ At(p, "details_fallback")
    /\ loc' = [loc EXCEPT ![p].d_assets = loc[p].rvAssets, ![p].rvAssets = None,
                          ![p].s_data = None,
                          ![p].rvDetails = Some(FirstMatch(loc[p].rvAssets[1])),
                          ![p].d_headers = None]
    /\ Return(p)
    /\ UNCHANGED <<session, env, now, cpu, tokenRequests, trail>>

\* ------------------------------------------------------ Archive Extractor
\* file_name.lower().endswith(...) for the names of the model.
Ext(name) ==
    CASE name \in {"spec.yaml", "api.yml"} -> "yaml"
      [] name \in {"spec.json", "api.json"} -> "json"
      [] OTHER -> "other"

\* The loop of lines 323-329 keeps the last entry of each kind; 0 is None.
LastWithExt(members, ext) ==
    LET found == {i \in 1..Len(members) : Ext(members[i].name) = ext}
    IN IF found = {} THEN 0 ELSE CHOOSE i \in found : \A j \in found : j <= i

\* The choice of lines 332-347 with the JSON entry ahead of the YAML one.
MutTargetFile(members, main_file) ==
    IF main_file # "" /\ \E i \in 1..Len(members) : members[i].name = main_file
    THEN CHOOSE i \in 1..Len(members) :
             /\ members[i].name = main_file
             /\ \A j \in 1..(i - 1) : members[j].name # main_file
    ELSE IF LastWithExt(members, "json") # 0 THEN LastWithExt(members, "json")
    ELSE IF LastWithExt(members, "yaml") # 0 THEN LastWithExt(members, "yaml")
    ELSE IF members # <<>> THEN 1
    ELSE 0

\* Lines 332-347: the entry to read, 0 when the archive is empty.
TargetFile(members, main_file) ==
    IF main_file # "" /\ \E i \in 1..Len(members) : members[i].name = main_file
    THEN CHOOSE i \in 1..Len(members) :
             /\ members[i].name = main_file
             /\ \A j \in 1..(i - 1) : members[j].name # main_file
    ELSE IF LastWithExt(members, "yaml") # 0 THEN LastWithExt(members, "yaml")
    ELSE IF LastWithExt(members, "json") # 0 THEN LastWithExt(members, "json")
    ELSE IF members # <<>> THEN 1
    ELSE 0

\* A specification result; the keys a result does not carry are None.
SpecResult(type, classifier, file_name, content, files_in_zip, endpoint) ==
    [type |-> type, classifier |-> classifier, file_name |-> file_name,
     content |-> content, files_in_zip |-> files_in_zip, endpoint |-> endpoint]

\* zip_file.open(name): of several entries with one name, ZipFile reads the
\* last one.
Opened(members, name) ==
    members[CHOOSE i \in 1..Len(members) :
                /\ members[i].name = name
                /\ \A j \in (i + 1)..Len(members) : members[j].name # name]

\* Lines 349-377 with json.loads tried on every entry, whatever its name.
MutExtracted(members, classifier, main_file) ==
    IF TargetFile(members, main_file) = 0 THEN None
    ELSE LET target == Opened(members, members[TargetFile(members, main_file)].name)
             type == IF Parses(target.text) THEN "openapi_json" ELSE "openapi_yaml"
         IN Some(SpecResult(type, Some(classifier), Some(target.name),
                            IF type = "openapi_json" THEN Loads(target.text)
                            ELSE TextValue(target.text),
                            Some([i \in 1..Len(members) |-> members[i].name]), None))

\* Lines 349-377: the result for a ZIP with these entries.
Extracted(members, classifier, main_file) ==
    IF TargetFile(members, main_file) = 0 THEN None
    ELSE LET target == Opened(members, members[TargetFile(members, main_file)].name)
             type == IF Ext(target.name) = "json" /\ Parses(target.text)
                     THEN "openapi_json" ELSE "openapi_yaml"
         IN Some(SpecResult(type, Some(classifier), Some(target.name),
                            IF type = "openapi_json" THEN Loads(target.text)
                            ELSE TextValue(target.text),
                            Some([i \in 1..Len(members) |-> members[i].name]), None))

CallDownloadAndExtractSpec == <<"extract_send", "extract_wait">>

\* _download_and_extract_spec up to the await of the GET; it sends no
\* headers and logs no curl line.
ExtractSend(p) ==
    /\ At(p, "extract_send")
    /\ Record(p, Entry("file", <<loc[p].x_link>>, "pending", None, TRUE, <<>>))
    /\ Return(p)
    /\ cpu' = Free
    /\ UNCHANGED <<session, env, now, loc, tokenRequests>>

\* The except branches of lines 379-384 with the exception let through.
MutExtractFailure == Some("raised")

\* What the except branches of lines 379-384 return.
ExtractFailure == None

\* _download_and_extract_spec from the response on: a result, or None.
\* x_zip keeps the archive that was opened until the caller takes the result.
ExtractResponse(p) ==
    /\ Waiting(p, "extract_wait")
    /\ \E r \in ArchiveResponses(loc[p].x_link) :
        /\ Answered(p, IF r.kind = "zip" /\ r.members # <<>> THEN "zip" ELSE "bad_zip", None)
        /\ loc' = [loc EXCEPT ![p].rvSpec =
                       Some(IF r.kind = "zip"
                            THEN Extracted(r.members, loc[p].x_classifier, loc[p].x_main)
                            ELSE ExtractFailure),
                              ![p].x_zip = IF r.kind = "zip" THEN Some(r.members) ELSE None]
    /\ Return(p)
    /\ cpu' = p
    /\ UNCHANGED <<session, env, now, tokenRequests>>

\* ------------------------------------------------- Specification Retriever
CallGetAssetSpecification == CallGetHeaders \o <<"spec_begin">>

\* get_asset_specification from get_headers' return to its first call of
\* get_asset_details: without a version when it was given none.
SpecBegin(p) ==
    /\ At(p, "spec_begin")
    /\ loc' = [loc EXCEPT ![p].g_headers = loc[p].rvHeaders, ![p].rvHeaders = None,
                          ![p].g_stage = "details", ![p].d_version = loc[p].g_version]
    /\ IF loc[p].g_version = None
       THEN Goto(p, CallGetAssetDetails \o <<"spec_version">>)
       ELSE Goto(p, CallGetAssetDetails \o <<"spec_files">>)
    /\ UNCHANGED <<session, env, now, cpu, tokenRequests, trail>>

\* Lines 394-402: the version from the details found, then the second call.
SpecVersion(p) ==
    /\ At(p, "spec_version")
    /\ LET details == loc[p].rvDetails[1]
           version == IF details # None THEN VersionOf(details[1]) ELSE DefaultVersion
       IN loc' = [loc EXCEPT ![p].g_version = Some(version), ![p].d_version = Some(version),
                             ![p].rvDetails = None, ![p].d_stage = "", ![p].d_assets = None]
    /\ Goto(p, CallGetAssetDetails \o <<"spec_files">>)
    /\ UNCHANGED <<session, env, now, cpu, tokenRequests, trail>>

NumSpecEndpoints == 5
MaxPatterns == 5

\* Lines 403-405: the files of the details, if they have any.
SpecFiles(p) ==
    /\ At(p, "spec_files")
    /\ LET details == loc[p].rvDetails[1]
           listed == details # None /\ details[1].files # None
       IN /\ loc' = [loc EXCEPT ![p].g_files = IF listed THEN details[1].files ELSE None,
                                ![p].g_pos = IF listed THEN 1 ELSE 0,
                                ![p].g_ep = IF listed THEN 0 ELSE 1,
                                ![p].g_stage = IF listed THEN "files" ELSE "legacy",
                                ![p].rvDetails = None, ![p].d_stage = "",
                                ![p].d_assets = None, ![p].d_version = None]
          /\ Goto(p, IF listed THEN <<"spec_scan">> ELSE <<"spec_legacy">>)
    /\ UNCHANGED <<session, env, now, cpu, tokenRequests, trail>>

\* The loops of lines 410-411 file by file, whatever the classifier.
MutScanOrder(files) ==
    [k \in 1..(Len(PriorityOrder) * Len(files)) |->
        <<((k - 1) % Len(PriorityOrder)) + 1, ((k - 1) \div Len(PriorityOrder)) + 1>>]

\* The loops of lines 410-411: the pairs <<classifier, file>> in the order
\* the body sees them, every file for one classifier before the next one.
ScanOrder(files) ==
    [k \in 1..(Len(PriorityOrder) * Len(files)) |->
        <<((k - 1) \div Len(files)) + 1, ((k - 1) % Len(files)) + 1>>]

\* One pass of the body of the loops up to an await, or the end of the loops.
SpecScan(p) ==
    /\ At(p, "spec_scan")
    /\ LET files == loc[p].g_files[1]
           order == ScanOrder(files)
       IN IF loc[p].g_pos > Len(order)
          THEN /\ loc' = [loc EXCEPT ![p].g_stage = "legacy", ![p].g_ep = 1]
               /\ Goto(p, <<"spec_legacy">>)
               /\ UNCHANGED <<cpu, trail>>
          ELSE LET classifier == PriorityOrder[order[loc[p].g_pos][1]]
                   file_info == files[order[loc[p].g_pos][2]]
               IN IF file_info.classifier = classifier /\ file_info.externalLink # ""
                  THEN IF file_info.packaging = "zip"
                       THEN /\ loc' = [loc EXCEPT ![p].x_link = file_info.externalLink,
                                                  ![p].x_classifier = classifier,
                                                  ![p].x_main = file_info.mainFile]
                            /\ Goto(p, CallDownloadAndExtractSpec \o <<"spec_zip_ret">>)
                            /\ UNCHANGED <<cpu, trail>>
                       ELSE /\ Record(p, Entry("file", <<file_info.externalLink>>, "pending",
                                               None, TRUE, <<>>))
                            /\ Goto(p, <<"spec_direct_wait">>)
                            /\ cpu' = Free
                            /\ loc' = loc
                  ELSE /\ loc' = [loc EXCEPT ![p].g_pos = loc[p].g_pos + 1]
                       /\ UNCHANGED <<pc, cpu, trail>>
    /\ UNCHANGED <<session, env, now, tokenRequests>>

\* `if spec_result:` taken whatever the extractor returned.
MutFound(spec_result) == TRUE

\* `if spec_result:` of line 425.
Found(spec_result) == spec_result # None

\* Lines 424-426: return what the extractor found, or go on with the loops.
SpecZipReturn(p) ==
    /\ At(p, "spec_zip_ret")
    /\ IF Found(loc[p].rvSpec[1])
       THEN /\ loc' = [loc EXCEPT ![p].g_stage = "file_found", ![p].rvSpec = loc[p].rvSpec[1],
                                  ![p].x_link = "", ![p].x_classifier = "", ![p].x_main = "",
                                  ![p].x_zip = None]
            /\ Return(p)
       ELSE /\ loc' = [loc EXCEPT ![p].g_pos = loc[p].g_pos + 1, ![p].rvSpec = None,
                                  ![p].x_link = "", ![p].x_classifier = "", ![p].x_main = "",
                                  ![p].x_zip = None]
            /\ Goto(p, <<"spec_scan">>)
    /\ UNCHANGED <<session, env, now, cpu, tokenRequests, trail>>

\* Lines 429-455: the response to the GET of a plain file.
SpecDirectResponse(p) ==
    /\ Waiting(p, "spec_direct_wait")
    /\ LET order == ScanOrder(loc[p].g_files[1])
           classifier == PriorityOrder[order[loc[p].g_pos][1]]
           file_info == loc[p].g_files[1][order[loc[p].g_pos][2]]
       IN \E r \in DirectResponses(file_info.externalLink) :
            /\ Answered(p, r.kind, Http200Body(r.kind))
            /\ IF r.kind \in {"json", "bad_json", "text"}
               THEN /\ loc' = [loc EXCEPT
                          ![p].rvSpec =
                              Some(SpecResult(IF r.kind = "json" THEN "openapi_json"
                                              ELSE "openapi_yaml",
                                              Some(classifier), None,
                                              IF r.kind = "json" THEN Loads(BodyText(r.kind))
                                              ELSE TextValue(BodyText(r.kind)),
                                              None, None)),
                          ![p].g_stage = "file_found"]
                    /\ Return(p)
               ELSE /\ loc' = [loc EXCEPT ![p].g_pos = loc[p].g_pos + 1]
                    /\ Goto(p, <<"spec_scan">>)
    /\ cpu' = p
    /\ UNCHANGED <<session, env, now, tokenRequests>>

\* spec_endpoints, lines 458-464.
SpecUrl(i, version) ==
    CASE i = 1 -> <<"v2", "assets", GroupId, AssetId, version, "files">>
      [] i = 2 -> <<"v2", "assets", GroupId, AssetId, version, "fat-raml">>
      [] i = 3 -> <<"v2", "assets", GroupId, AssetId, version, "instances">>
      [] i = 4 -> <<"v1", "assets", GroupId, AssetId, version, "raml">>
      [] i = 5 -> <<"v1", "assets", GroupId, AssetId, version, "oas">>

\* One iteration of the loop of line 466 up to the await of the GET, or the
\* return of None once the list is exhausted.
SpecLegacy(p) ==
    /\ At(p, "spec_legacy")
    /\ IF loc[p].g_ep <= NumSpecEndpoints
       THEN /\ Sent(p, "spec", SpecUrl(loc[p].g_ep, loc[p].g_version[1]), loc[p].g_headers[1])
            /\ Goto(p, <<"spec_legacy_wait">>)
            /\ cpu' = Free
            /\ loc' = loc
       ELSE /\ loc' = [loc EXCEPT ![p].rvSpec = Some(None), ![p].g_stage = "not_found"]
            /\ Return(p)
            /\ UNCHANGED <<cpu, trail>>
    /\ UNCHANGED <<session, env, now, tokenRequests>>

\* Lines 469-493: the response of a specification endpoint.
SpecLegacyResponse(p) ==
    /\ Waiting(p, "spec_legacy_wait")
    /\ \E r \in LegacyResponses :
        /\ Answered(p, r.kind, Http200Body(r.kind))
        /\ IF r.kind \in {"json", "text"}
           THEN /\ loc' = [loc EXCEPT
                      ![p].rvSpec =
                          Some(SpecResult("api_endpoint", None, None,
                                          IF r.kind = "json" THEN Loads(BodyText(r.kind))
                                          ELSE TextValue(BodyText(r.kind)), None,
                                          Some(SpecUrl(loc[p].g_ep, loc[p].g_version[1])))),
                      ![p].g_stage = "legacy_found"]
                /\ Return(p)
           ELSE /\ loc' = [loc EXCEPT ![p].g_ep = NextEndpoint(loc[p].g_ep)]
                /\ Goto(p, <<"spec_legacy">>)
    /\ cpu' = p
    /\ UNCHANGED <<session, env, now, tokenRequests>>

\* ------------------------------------------------------- tool invocations
Begin(p, op, version, labels) ==
    /\ Serving /\ cpu = Free /\ pc[p] = <<>>
    /\ pc' = [pc EXCEPT ![p] = labels \o <<"tool_ret">>]
    /\ loc' = [loc EXCEPT ![p] = [NoLocals EXCEPT !.op = op, !.g_version = version,
                                                  !.g_given = version # None]]
    /\ trail' = [trail EXCEPT ![p] = <<>>]
    /\ cpu' = p
    /\ UNCHANGED <<session, env, now, tokenRequests>>

\* A search tool call: call_tool awaits search_assets.
StartSearch(p) == Begin(p, "search", None, CallSearchAssets)

\* A details tool call: call_tool awaits get_asset_details(group_id, asset_id).
StartDetails(p) == Begin(p, "details", None, CallGetAssetDetails)

\* A specification tool call: call_tool awaits get_asset_specification with
\* the version of its arguments, if any.
StartSpecification(p) ==
    \E version \in {None, Some("2.0.0")} :
        Begin(p, "specification", version, CallGetAssetSpecification)

\* call_tool has its result: what follows is presentation, and the task ends.
ToolReturn(p) ==
    /\ At(p, "tool_ret")
    /\ pc' = [pc EXCEPT ![p] = <<>>]
    /\ loc' = [loc EXCEPT ![p] = NoLocals]
    /\ trail' = [trail EXCEPT ![p] = <<>>]
    /\ cpu' = Free
    /\ UNCHANGED <<session, env, now, tokenRequests>>

\* -------------------------------------------------------- Endpoint Analyzer
\* str.upper() on a method key.
MutUpper(method) == method

Upper(method) ==
    CASE method = "get" -> "GET"
      [] method = "post" -> "POST"
      [] method = "put" -> "PUT"
      [] method = "patch" -> "PATCH"
      [] method = "delete" -> "DELETE"
      [] method = "options" -> "OPTIONS"
      [] OTHER -> method

\* The (path, method key) pairs the two loops of lines 1127-1128 visit, one
\* after the other.
Pairs(paths) ==
    LET width == Len(MethodOrder)
        all == [k \in 1..(Len(PathOrder) * width) |->
                   <<PathOrder[((k - 1) \div width) + 1], MethodOrder[((k - 1) % width) + 1]>>]
    IN  SelectSeq(all, LAMBDA pair : /\ pair[1] \in DOMAIN paths.members
                                     /\ pair[2] \in DOMAIN paths.members[pair[1]].members)

\* Lines 1136-1144: endpoint_details, one record for each pair visited.
EndpointDetails(paths) ==
    LET visited == Pairs(paths)
    IN  [k \in DOMAIN visited |-> [path |-> visited[k][1], method |-> Upper(visited[k][2])]]

\* Lines 1129-1131: methods_count, one more under the upper-cased key for
\* each pair visited.
MethodsCount(endpoint_details) ==
    [method \in {endpoint_details[k].method : k \in DOMAIN endpoint_details} |->
        Cardinality({k \in DOMAIN endpoint_details : endpoint_details[k].method = method})]

\* '{id}' in path.
HasId(path) == path \in {"/accounts/{id}"}

\* Lines 1172-1182: the line appended to crud_patterns for an endpoint, if any.
Pattern(endpoint) ==
    LET line(label) == Some([label |-> label, method |-> endpoint.method,
                             path |-> endpoint.path])
    IN  CASE endpoint.method = "GET" /\ HasId(endpoint.path) -> line("Consulta individual")
          [] endpoint.method = "GET" /\ ~HasId(endpoint.path) -> line("Listagem")
          [] endpoint.method = "POST" -> line("Criação")
          [] endpoint.method \in {"PUT", "PATCH"} -> line("Atualização")
          [] endpoint.method = "DELETE" -> line("Exclusão")
          [] OTHER -> None

\* Lines 1168-1182: crud_patterns.
CrudPatterns(endpoint_details) ==
    LET lines == SelectSeq([k \in DOMAIN endpoint_details |-> Pattern(endpoint_details[k])],
                           LAMBDA line : line # None)
    IN  [k \in DOMAIN lines |-> lines[k][1]]

\* Line 1186 with the slice left out.
MutShownCount(n) == n

\* Line 1186: how many elements unique_patterns[:5] has.
ShownCount(n) == IF n < MaxPatterns THEN n ELSE MaxPatterns

\* Lines 1099-1120: spec_content for a specification, a result of
\* get_asset_specification or a bare document.
SpecContent(specification) ==
    IF "json" \in DOMAIN specification
    THEN IF "paths" \in DOMAIN specification.members THEN Some(specification) ELSE None
    ELSE CASE specification.type = "openapi_json" -> Some(specification.content)
           [] specification.type = "openapi_yaml" -> None
           [] OTHER -> IF specification.content.json = "object"
                       THEN Some(specification.content) ELSE None

\* Lines 1086-1187 up to the patterns shown: what the analysis reports.
Analysis(specification) ==
    LET nothing == [outcome |-> "", total |-> 0, methods_count |-> <<>>,
                    endpoint_details |-> <<>>, crud_patterns |-> <<>>]
        spec_content == SpecContent(specification[1])
    IN  IF \/ specification = None
           \/ "json" \in DOMAIN specification[1] /\ DOMAIN specification[1].members = {}
        THEN [nothing EXCEPT !.outcome = "no_specification"]
        ELSE IF /\ "json" \notin DOMAIN specification[1]
                /\ specification[1].type = "openapi_yaml"
                /\ \E i \in DOMAIN specification[1].content.text :
                       specification[1].content.text[i] = "paths:"
        THEN [nothing EXCEPT !.outcome = "yaml"]
        ELSE IF /\ spec_content # None
                /\ DOMAIN spec_content[1].members # {}
                /\ "paths" \in DOMAIN spec_content[1].members
        THEN LET paths == spec_content[1].members["paths"]
             IN  [outcome |-> "analyzed",
                  total |-> Cardinality(DOMAIN paths.members),
                  methods_count |-> MethodsCount(EndpointDetails(paths)),
                  endpoint_details |-> EndpointDetails(paths),
                  crud_patterns |-> CrudPatterns(EndpointDetails(paths))]
        ELSE [nothing EXCEPT !.outcome = "unsupported"]

\* call_tool for analyze_api_endpoints once get_asset_specification returned:
\* the analysis, and of the distinct pattern lines the ones the slice of line
\* 1186 takes; a set has no order to rely on, so it may take any.
Analyze(p) ==
    /\ At(p, "analyze")
    /\ \E out \in {Analysis(loc[p].rvSpec)} :
         \E unique_patterns \in {{out.crud_patterns[k] : k \in DOMAIN out.crud_patterns}} :
           \E shown \in SUBSET unique_patterns :
             /\ Cardinality(shown) = ShownCount(Cardinality(unique_patterns))
             /\ loc' = [loc EXCEPT ![p].a_spec = loc[p].rvSpec, ![p].rvSpec = None,
                                   ![p].a_out = Some(out @@ [shown |-> shown])]
    /\ Goto(p, <<>>)
    /\ UNCHANGED <<session, env, now, cpu, tokenRequests, trail>>

\* ------------------------------------------------------------------ specs
\* The state after MuleSoftExchangeClient() and before main() authenticates.
Constructed ==
    /\ access_token = None
    /\ token_expires_at = None
    /\ now = 0
    /\ cpu = Main
    /\ pc = [p \in Procs |-> IF p = Main THEN <<"authenticate", "main_ret">> ELSE <<>>]
    /\ loc = [p \in Procs |-> NoLocals]
    /\ tokenRequests = 0
    /\ trail = [p \in Procs |-> <<>>]

SessionStep(p) ==
    \/ EnsureAuthenticated(p)
    \/ Authenticate(p)
    \/ AuthResponse(p)
    \/ GetHeaders(p)

SearchStep(p) == SearchSend(p) \/ SearchResponse(p)

DetailsStep(p) ==
    \/ DetailsBegin(p)
    \/ DetailsResolve(p)
    \/ DetailsTry(p)
    \/ DetailsResponse(p)
    \/ DetailsFallback(p)

ExtractStep(p) == ExtractSend(p) \/ ExtractResponse(p)

SpecificationStep(p) ==
    \/ SpecBegin(p)
    \/ SpecVersion(p)
    \/ SpecFiles(p)
    \/ SpecScan(p)
    \/ SpecZipReturn(p)
    \/ SpecDirectResponse(p)
    \/ SpecLegacy(p)
    \/ SpecLegacyResponse(p)

\* The Session under concurrent search tool calls; what the searches find
\* does not matter to it.
Init ==
    /\ Constructed
    /\ client_secret = DefaultSecret
    /\ remote = [grants |-> Grants, lists |-> {<<>>}, odd |-> {}, docs |-> {}, faults |-> Faults,
                 up |-> Endpoints, down |-> Endpoints,
                 archives |-> {}, legacy |-> {}, packed |-> {}]

Next ==
    \/ MainReturn
    \/ Tick
    \/ SessionStep(Main)
    \/ \E p \in Tasks : SessionStep(p) \/ StartSearch(p) \/ SearchStep(p) \/ ToolReturn(p)

Spec == Init /\ [][Next]_vars

\* One details tool call at a time, against any catalog, under a token that
\* lasts.
FirstTask == Main + 1

LongGrant == [access_token |-> HexText(TokenMaskLen + 1), expires_in |-> None]

InitDetails ==
    /\ Constructed
    /\ client_secret = DefaultSecret
    /\ remote = [grants |-> {LongGrant}, lists |-> AssetLists, odd |-> {},
                 docs |-> {d \in DetailDocs : d.files = None \/ Len(d.files[1]) <= 1},
                 faults |-> Faults,
                 up |-> Endpoints, down |-> Endpoints,
                 archives |-> {}, legacy |-> {}, packed |-> {}]

NextDetails ==
    \/ MainReturn
    \/ SessionStep(Main)
    \/ SessionStep(FirstTask) \/ SearchStep(FirstTask) \/ StartDetails(FirstTask)
    \/ DetailsStep(FirstTask) \/ ToolReturn(FirstTask)

SpecDetails == InitDetails /\ [][NextDetails]_vars

\* One details tool call at a time while time passes and tokens run out:
\* get_asset_details without a version calls get_headers, then search_assets
\* calls it again.
InitRenewal ==
    /\ Constructed
    /\ client_secret = DefaultSecret
    /\ remote = [grants |-> Grants, lists |-> {<<>>}, odd |-> {}, docs |-> {}, faults |-> Faults,
                 up |-> Endpoints, down |-> Endpoints,
                 archives |-> {}, legacy |-> {}, packed |-> {}]

NextRenewal ==
    \/ MainReturn
    \/ Tick
    \/ SessionStep(Main)
    \/ SessionStep(FirstTask) \/ SearchStep(FirstTask) \/ StartDetails(FirstTask)
    \/ DetailsStep(FirstTask) \/ ToolReturn(FirstTask)

SpecRenewal == InitRenewal /\ [][NextRenewal]_vars

\* One search tool call at a time, for every secret of the environment and
\* every token the identity provider may grant.
InitLog ==
    /\ Constructed
    /\ client_secret \in Texts
    /\ remote = [grants |-> {[access_token |-> t, expires_in |-> None] : t \in Texts},
                 lists |-> {<<>>}, odd |-> {}, docs |-> {}, faults |-> Faults,
                 up |-> Endpoints, down |-> Endpoints,
                 archives |-> {}, legacy |-> {}, packed |-> {}]

NextLog ==
    \/ MainReturn
    \/ SessionStep(Main)
    \/ SessionStep(FirstTask) \/ StartSearch(FirstTask) \/ SearchStep(FirstTask)
    \/ ToolReturn(FirstTask)

SpecLog == InitLog /\ [][NextLog]_vars

\* One specification tool call at a time for an asset whose details do not
\* change and come from the first detail endpoint, from the third or from
\* none, under a token that lasts.
InitRetrieval ==
    /\ Constructed
    /\ client_secret = DefaultSecret
    /\ \E doc \in DetailDocs, up \in {{1}, {3}, {}} :
         remote = [grants |-> {LongGrant}, lists |-> {<<>>}, odd |-> {}, docs |-> {doc},
                   faults |-> Faults \ {"bad_json"},
                   up |-> up, down |-> Endpoints \ up,
                   archives |-> Archives \ {<<>>},
                   legacy |-> {"json", "text", "status_error", "transport_error"}, packed |-> {}]

NextRetrieval ==
    \/ MainReturn
    \/ SessionStep(Main)
    \/ SessionStep(FirstTask) \/ SearchStep(FirstTask) \/ DetailsStep(FirstTask)
    \/ StartSpecification(FirstTask) \/ SpecificationStep(FirstTask)
    \/ ExtractStep(FirstTask) \/ ToolReturn(FirstTask)

SpecRetrieval == InitRetrieval /\ [][NextRetrieval]_vars

\* One search tool call at a time against a search endpoint that answers
\* with any JSON body: arrays, objects with any of the keys assets, data,
\* items and total, the first three holding an array or null and the last
\* a number, null and numbers.
SearchLists ==
    {l \in SeqsUpTo({s \in Summaries : s.version = Some("2.0.0") /\ s.files = None},
                    MaxAssets) :
        \A i, j \in DOMAIN l : l[i] = l[j] => i = j}

JsonValues == {JsonNull} \cup {JsonArray(l) : l \in SearchLists}

ObjectKeys == {"assets", "data", "items", "total"}

JsonObjects ==
    {JsonObject(f) : f \in
        {g \in UNION {[K -> JsonValues \cup {JsonNumber}] : K \in SUBSET ObjectKeys} :
            \A k \in DOMAIN g : (g[k] = JsonNumber) <=> (k = "total")}}

InitSearch ==
    /\ Constructed
    /\ client_secret = DefaultSecret
    /\ remote = [grants |-> {LongGrant}, lists |-> SearchLists,
                 odd |-> JsonObjects \cup {JsonNull, JsonNumber},
                 docs |-> {}, faults |-> Faults, up |-> {}, down |-> {},
                 archives |-> {}, legacy |-> {}, packed |-> {}]

NextSearch ==
    \/ MainReturn
    \/ SessionStep(Main)
    \/ SessionStep(FirstTask) \/ StartSearch(FirstTask) \/ SearchStep(FirstTask)
    \/ ToolReturn(FirstTask)

SpecSearch == InitSearch /\ [][NextSearch]_vars

\* One specification tool call at a time for an asset that lists no file
\* that can be fetched, against legacy endpoints that answer in every way.
DeadFile(packaging) ==
    [classifier |-> "oas", packaging |-> packaging, externalLink |-> "dead", mainFile |-> ""]

FallbackDocs ==
    [groupId : {GroupId}, assetId : {AssetId}, version : {None, Some("3.0.0")},
     files : {None, Some(<<DeadFile("zip")>>), Some(<<DeadFile("json")>>)}]

InitFallback ==
    /\ Constructed
    /\ client_secret = DefaultSecret
    /\ \E doc \in FallbackDocs, up \in {{1}, {}} :
         remote = [grants |-> {LongGrant}, lists |-> {<<>>}, odd |-> {}, docs |-> {doc},
                   faults |-> Faults \ {"bad_json"},
                   up |-> up, down |-> Endpoints \ up,
                   archives |-> {},
                   legacy |-> {"json", "text"} \cup Faults, packed |-> {}]

SpecFallback == InitFallback /\ [][NextRetrieval]_vars

\* One specification tool call at a time for an asset whose one file is an
\* archive, with every main file it may declare and every archive its link
\* may serve.
MainFiles == {"", "a.txt", "spec.json", "main.raml"}

ArchiveDocs ==
    [groupId : {GroupId}, assetId : {AssetId}, version : {Some("2.0.0")},
     files : {Some(<<[classifier |-> "oas", packaging |-> "zip",
                      externalLink |-> link, mainFile |-> main]>>) :
                 link \in {"live", "dead"}, main \in MainFiles}]

InitExtract ==
    /\ Constructed
    /\ client_secret = DefaultSecret
    /\ \E doc \in ArchiveDocs :
         remote = [grants |-> {LongGrant}, lists |-> {<<>>}, odd |-> {}, docs |-> {doc},
                   faults |-> {"status_error"},
                   up |-> {1}, down |-> {},
                   archives |-> ListedArchives \ {<<>>},
                   legacy |-> {"text", "status_error"}, packed |-> {}]

NextExtract ==
    \/ MainReturn
    \/ SessionStep(Main)
    \/ SessionStep(FirstTask) \/ SearchStep(FirstTask)
    \/ DetailsBegin(FirstTask) \/ DetailsResolve(FirstTask)
    \/ DetailsTry(FirstTask) \/ DetailsResponse(FirstTask)
    \/ StartSpecification(FirstTask)
    \/ SpecBegin(FirstTask) \/ SpecVersion(FirstTask) \/ SpecFiles(FirstTask)
    \/ SpecScan(FirstTask) \/ SpecZipReturn(FirstTask)
    \/ SpecLegacy(FirstTask) \/ SpecLegacyResponse(FirstTask)
    \/ ExtractStep(FirstTask) \/ ToolReturn(FirstTask)

SpecExtract == InitExtract /\ [][NextExtract]_vars

\* One details or specification tool call at a time, every call of the event
\* loop being answered in the end, for an asset that lists up to two files
\* behind dead links, against detail and legacy endpoints that answer in
\* every way.
EngineDocs ==
    [groupId : {GroupId}, assetId : {AssetId}, version : {None, Some("3.0.0")},
     files : {None, Some(<<DeadFile("zip")>>), Some(<<DeadFile("json"), DeadFile("zip")>>)}]

InitEngine ==
    /\ Constructed
    /\ client_secret = DefaultSecret
    /\ \E doc \in EngineDocs, up \in {{1}, {}} :
         remote = [grants |-> {LongGrant}, lists |-> {<<>>}, odd |-> {}, docs |-> {doc},
                   faults |-> {"status_error"},
                   up |-> up, down |-> Endpoints \ up,
                   archives |-> {},
                   legacy |-> {"json", "text"} \cup Faults, packed |-> {}]

NextEngine == NextRetrieval \/ StartDetails(FirstTask)

FairEngine == InitEngine /\ [][NextEngine]_vars /\ WF_vars(NextEngine)

\* One search tool call at a time against an identity provider that grants
\* tokens of every lifetime and also answers 200 with odd objects.
Lifetimes == {0, 299, 300, 450, 3600}

InitSession ==
    /\ Constructed
    /\ client_secret = DefaultSecret
    /\ remote = [grants |-> [access_token : {LongGrant.access_token},
                             expires_in : {None} \cup {Some(e) : e \in Lifetimes}],
                 lists |-> {<<>>}, odd |-> {}, docs |-> {},
                 faults |-> {"status_error", "no_access_token", "bad_expires_in"},
                 up |-> {}, down |-> Endpoints,
                 archives |-> {}, legacy |-> {}, packed |-> {}]

NextSession ==
    \/ MainReturn
    \/ Tick
    \/ SessionStep(Main)
    \/ SessionStep(FirstTask) \/ StartSearch(FirstTask)
    \/ SearchStep(FirstTask) \/ ToolReturn(FirstTask)

SpecSession == InitSession /\ [][NextSession]_vars

\* One analysis at a time of what get_asset_specification may hand to the
\* analyzer: every document with up to three paths of up to MaxMethods
\* methods each, bare, as the content of a legacy result, or packed as the
\* .json entry of the archive behind the asset's file; a YAML result; nothing.
MethodSets == {methods \in SUBSET MethodKeys : Cardinality(methods) <= MaxMethods}

Document(methods_of) ==
    JsonObject([key \in {"paths"} |->
        JsonObject([path \in DOMAIN methods_of |->
            JsonObject([method \in methods_of[path] |-> JsonObject(<<>>)])])])

Documents ==
    {JsonObject(<<>>)}
        \cup {Document(methods_of) :
                 methods_of \in UNION {[paths -> MethodSets] : paths \in SUBSET PathNames}}

Packed(doc) ==
    <<[name |-> "a.txt", text |-> YamlText], [name |-> "spec.json", text |-> Dumps(doc)]>>

ArchiveFile ==
    [classifier |-> "oas", packaging |-> "zip", externalLink |-> "live", mainFile |-> ""]

Handed(doc) ==
    {None, Some(doc),
     Some(SpecResult("api_endpoint", None, None, doc, None, Some(SpecUrl(1, "2.0.0")))),
     Some(SpecResult("openapi_yaml", Some("oas"), Some("spec.yaml"), TextValue(YamlText),
                     Some(<<"spec.yaml">>), None))}

InitAnalysis ==
    /\ access_token = Some(LongGrant.access_token)
    /\ token_expires_at = Some(StoredExpiry(0, DefaultExpiresIn))
    /\ client_secret = DefaultSecret
    /\ now = 0
    /\ cpu = FirstTask
    /\ tokenRequests = 1
    /\ trail = [p \in Procs |-> <<>>]
    /\ \E doc \in Documents :
         /\ remote = [grants |-> {LongGrant}, lists |-> {<<>>}, odd |-> {}, docs |-> {},
                      faults |-> {}, up |-> {1}, down |-> {},
                      archives |-> {Packed(doc)}, legacy |-> {}, packed |-> {doc}]
         /\ \/ /\ pc = [p \in Procs |->
                          IF p = FirstTask
                          THEN CallDownloadAndExtractSpec \o <<"spec_zip_ret", "analyze", "tool_ret">>
                          ELSE <<>>]
               /\ loc = [p \in Procs |->
                           IF p = FirstTask
                           THEN [NoLocals EXCEPT !.op = "analyze", !.g_version = Some("2.0.0"),
                                                 !.g_given = TRUE, !.g_stage = "files",
                                                 !.g_files = Some(<<ArchiveFile>>), !.g_pos = 1,
                                                 !.x_link = "live", !.x_classifier = "oas"]
                           ELSE NoLocals]
            \/ /\ pc = [p \in Procs |-> IF p = FirstTask THEN <<"analyze", "tool_ret">> ELSE <<>>]
               /\ \E specification \in Handed(doc) :
                    loc = [p \in Procs |->
                              IF p = FirstTask
                              THEN [NoLocals EXCEPT !.op = "analyze", !.rvSpec = specification]
                              ELSE NoLocals]

NextAnalysis ==
    \/ ExtractStep(FirstTask) \/ SpecZipReturn(FirstTask)
    \/ Analyze(FirstTask) \/ ToolReturn(FirstTask)

SpecAnalysis == InitAnalysis /\ [][NextAnalysis]_vars

\* ================================================================ claims
Entries(p) == 1..Len(trail[p])
Kinds(p) == [i \in Entries(p) |-> trail[p][i].kind]

\* C1: no catalog request (search, detail or specification endpoint) leaves
\* with a bearer token that is absent, or whose stored expiry is absent or not
\* later than the current time, also right after a renewal that failed.
\* get_headers builds the header from whatever the Session holds, so this is
\* violated.
RequestsCarryUsableToken ==
    \A p \in Procs : \A i \in Entries(p) :
        trail[p][i].kind \in Catalog => trail[p][i].usable

\* C2: under concurrent _ensure_authenticated calls with no valid token held,
\* at most one token request is in flight: a second caller waits for the
\* renewal under way.  Nothing in the code makes it wait, so this is violated.
SingleFlightRenewal ==
    Cardinality({p \in Procs : Top(p) = "auth_wait"}) <= 1

\* The token requests a task's i-th trail entry, an _ensure_authenticated
\* call, sent: those recorded after it and before its next such call.
RequestsOfCall(p, i) ==
    {k \in Entries(p) :
        /\ k > i
        /\ trail[p][k].kind = "token"
        /\ \A j \in (i + 1)..k : trail[p][j].kind # "ensure"}

ConsecutiveCalls(p, i, j) ==
    /\ i < j
    /\ trail[p][i].kind = "ensure"
    /\ trail[p][j].kind = "ensure"
    /\ \A k \in (i + 1)..(j - 1) : trail[p][k].kind # "ensure"

\* C3: of two sequential _ensure_authenticated calls whose second is made
\* while a token is held and the clock is before its buffer-adjusted expiry,
\* the second sends no token request and the two send at most one in total.
SequentialCallsRenewOnce ==
    \A p \in Tasks : \A i, j \in Entries(p) :
        (ConsecutiveCalls(p, i, j) /\ trail[p][j].status = "fresh")
            => /\ RequestsOfCall(p, j) = {}
               /\ Cardinality(RequestsOfCall(p, i)) <= 1

\* C3 witness: a first call renewed, the second one found the token fresh and
\* the search request followed it directly.
RenewedThenReused ==
    /\ Len(trail[FirstTask]) >= 4
    /\ SubSeq(Kinds(FirstTask), 1, 4) = <<"ensure", "token", "ensure", "search">>
    /\ trail[FirstTask][1].status = "stale"
    /\ trail[FirstTask][2].status = "ok"
    /\ trail[FirstTask][3].status = "fresh"

\* C4: _ensure_authenticated never returns normally to its caller after the
\* token request it made was refused or failed.  It drops what authenticate
\* returned, so this is violated.
EnsureRaisesOnFailure ==
    \A p \in Tasks : ~(Top(p) = "headers" /\ loc[p].rvAuth = Some(FALSE))

\* A step in which authenticate, run by p, learns that its token request failed.
TokenRequestFails(p) ==
    /\ Top(p) = "auth_wait"
    /\ pc'[p] # pc[p]
    /\ trail'[p][Len(trail'[p])].status = "failed"

\* C5: when the token request fails (transport error or non-success status),
\* authenticate returns False to its caller without raising, and the token
\* and the expiry of the Session are what they were before the step.
FailureKeepsSession ==
    [][\A p \in Procs :
         TokenRequestFails(p)
            => /\ access_token' = access_token
               /\ token_expires_at' = token_expires_at
               /\ loc'[p].rvAuth = Some(FALSE)
               /\ pc'[p] = Tail(pc[p])]_vars

\* C5 witness: a renewal by a tool call has failed while a token was held, and
\* the token is still there.
FailedRenewalKeptToken ==
    \E p \in Tasks :
        /\ loc[p].rvAuth = Some(FALSE)
        /\ trail[p] # <<>>
        /\ trail[p][Len(trail[p])].kind = "token"
        /\ trail[p][Len(trail[p])].status = "failed"
        /\ access_token \in {Some(t) : t \in IdpTokens}
        /\ token_expires_at # None

\* The text s occurs in `text`, character by character.
Contains(text, s) ==
    \E i \in 1..(Len(text) - Len(s) + 1) : SubSeq(text, i, i + Len(s) - 1) = s

\* C6: no logged request line holds a complete bearer token or a complete
\* client secret.  The masks keep the first 20 and the first 8 characters, so
\* a value no longer than that is logged whole and this is violated.
TraceHoldsNoSecret ==
    \A p \in Procs : \A i \in Entries(p) :
        /\ trail[p][i].kind = "token" => ~Contains(trail[p][i].curl, client_secret)
        /\ (trail[p][i].kind \in Catalog /\ trail[p][i].bearer # None)
               => ~Contains(trail[p][i].curl, trail[p][i].bearer[1])

\* The detail requests of p's operation, in the order they were sent.
IsDetail(entry) == entry.kind = "detail"
DetailRequests(p) == SelectSeq(trail[p], IsDetail)

Http200 == {"ok", "bad_json"}

\* C7 as stated: the detail endpoints are asked in the declared order and no
\* detail request is sent after one that was answered HTTP 200.  A 200 whose
\* body does not decode is followed by the next endpoint, so this is violated.
CascadeStopsAtFirst200 ==
    \A p \in Tasks : \A k \in 1..Len(DetailRequests(p)) :
        /\ k <= NumDetailEndpoints
        /\ DetailRequests(p)[k].url = DetailUrl(k, loc[p].d_version[1])
        /\ k < Len(DetailRequests(p)) => DetailRequests(p)[k].status \notin Http200

\* C7: the detail endpoints are asked in the declared order, no detail
\* request is sent after one answered HTTP 200 with a body that decodes, that
\* body is what get_asset_details returns, and the search fallback starts only
\* after all four have been asked without such an answer.
CascadeStopsAtFirstDecoded200 ==
    \A p \in Tasks :
        LET sent == DetailRequests(p) IN
        /\ \A k \in 1..Len(sent) :
            /\ k <= NumDetailEndpoints
            /\ sent[k].url = DetailUrl(k, loc[p].d_version[1])
            /\ k < Len(sent) => sent[k].status # "ok"
        /\ loc[p].d_stage = "found"
            => /\ sent # <<>>
               /\ sent[Len(sent)].status = "ok"
               /\ loc[p].rvDetails = Some(sent[Len(sent)].body)
        /\ loc[p].d_stage = "fallback"
            => /\ Len(sent) = NumDetailEndpoints
               /\ sent[Len(sent)].status # "ok"

\* C7 witness: endpoints 1 and 2 failed, endpoint 3 answered, and
\* get_asset_details has returned after exactly three detail requests.
ThirdEndpointAnswers ==
    \E p \in Tasks :
        /\ Top(p) = "tool_ret"
        /\ loc[p].d_stage = "found"
        /\ [k \in 1..Len(DetailRequests(p)) |-> DetailRequests(p)[k].status]
               = <<"failed", "failed", "ok">>

MatchIdx(assets) == {i \in 1..Len(assets) : Matches(assets[i])}
Least(S) == CHOOSE x \in S : \A y \in S : x <= y

\* get_asset_details was called without a version and the search has returned.
Resolved(p) ==
    loc[p].d_stage = "cascade" /\ ~loc[p].d_given /\ loc[p].d_assets # None

FellBack(p) == loc[p].d_stage = "fallback" /\ loc[p].d_assets # None

FilesOf(asset) == IF asset.files = None THEN <<>> ELSE asset.files[1]

\* C9 as stated: after every detail endpoint failed, the result is the first
\* summary with the requested identity, with an empty files sequence, and
\* nothing when no summary matches.  The summary is returned with the files
\* the search gave it, so this is violated.
FallbackPromotesWithoutFiles ==
    \A p \in Tasks :
        FellBack(p) =>
            LET assets == loc[p].d_assets[1]
                result == loc[p].rvDetails[1]
            IN /\ result = None <=> MatchIdx(assets) = {}
               /\ result # None
                    => /\ [result[1] EXCEPT !.files = None]
                            = [assets[Least(MatchIdx(assets))] EXCEPT !.files = None]
                       /\ FilesOf(result[1]) = <<>>

\* C9: after every detail endpoint failed, the result is the first summary
\* with the requested identity exactly as the search listed it, files
\* included, and nothing when no summary matches.
FallbackReturnsFirstMatch ==
    \A p \in Tasks :
        FellBack(p) =>
            LET assets == loc[p].d_assets[1] IN
            /\ \A k \in 1..Len(DetailRequests(p)) : DetailRequests(p)[k].status # "ok"
            /\ Len(DetailRequests(p)) = NumDetailEndpoints
            /\ loc[p].rvDetails =
                   Some(IF MatchIdx(assets) = {} THEN None
                        ELSE Some(assets[Least(MatchIdx(assets))]))

\* C9 witness: the fallback skipped a summary of another asset and returned
\* the second one, which has the requested identity.
FallbackSkipsOtherAsset ==
    \E p \in Tasks :
        /\ FellBack(p)
        /\ Len(loc[p].d_assets[1]) = 2
        /\ MatchIdx(loc[p].d_assets[1]) = {2}
        /\ loc[p].rvDetails = Some(Some(loc[p].d_assets[1][2]))

\* The rank of a classifier in the priority list, 0 when it is not in it.
Rank(classifier) ==
    IF \E c \in 1..Len(PriorityOrder) : PriorityOrder[c] = classifier
    THEN CHOOSE c \in 1..Len(PriorityOrder) : PriorityOrder[c] = classifier
    ELSE 0

\* A file phase 2 can use: its classifier is in the list and its link serves it.
Usable(file_info) == Rank(file_info.classifier) # 0 /\ file_info.externalLink = "live"
UsableIn(files) == {i \in 1..Len(files) : Usable(files[i])}

\* The usable file to prefer: the best classifier first, then the position.
Preferred(files) ==
    CHOOSE i \in UsableIn(files) :
        \A j \in UsableIn(files) :
            \/ Rank(files[i].classifier) < Rank(files[j].classifier)
            \/ Rank(files[i].classifier) = Rank(files[j].classifier) /\ i <= j

\* The file requests of p's operation, in the order they were sent.
IsFile(entry) == entry.kind = "file"
FileRequests(p) == SelectSeq(trail[p], IsFile)

\* C10: in phase 2 the file is chosen by classifier priority and not by its
\* position: when the asset declares usable files, the result comes from
\* the first usable file of the best classifier (from the oas file when an
\* oas and a raml file are usable, wherever they are in the list) and phase 3
\* is not entered; a declared file without a link is never requested.
PhaseTwoFollowsPriority ==
    \A p \in Tasks :
        /\ \A k \in 1..Len(FileRequests(p)) : FileRequests(p)[k].url # <<"">>
        /\ loc[p].g_stage = "file_found"
            => LET files == loc[p].g_files[1] IN
               /\ UsableIn(files) # {}
               /\ loc[p].rvSpec[1].classifier = Some(files[Preferred(files)].classifier)
               /\ ScanOrder(files)[loc[p].g_pos]
                      = <<Rank(files[Preferred(files)].classifier), Preferred(files)>>
        /\ (loc[p].g_stage \in {"legacy", "legacy_found", "not_found"} /\ loc[p].g_files # None)
            => UsableIn(loc[p].g_files[1]) = {}

\* C10 witness: the raml file is listed first, the oas file second, both are
\* usable, and the result returned is the one of the oas file.
OasBeatsEarlierRaml ==
    \E p \in Tasks :
        /\ Top(p) = "tool_ret"
        /\ loc[p].g_stage = "file_found"
        /\ Len(loc[p].g_files[1]) = 2
        /\ loc[p].g_files[1][1].classifier = "raml" /\ Usable(loc[p].g_files[1][1])
        /\ loc[p].g_files[1][2].classifier = "oas" /\ Usable(loc[p].g_files[1][2])
        /\ loc[p].rvSpec[1].classifier = Some("oas")

\* The requests of p's operation to the legacy specification endpoints, in
\* the order they were sent.
IsSpec(entry) == entry.kind = "spec"
SpecRequests(p) == SelectSeq(trail[p], IsSpec)

\* C11: the legacy specification endpoints are asked only once phase 2 is
\* over without a result, in the order files, fat-raml, instances, raml, oas;
\* no legacy request is sent after one that was answered HTTP 200, whose
\* result is returned; not_found is returned when none answered 200.  A 200
\* with a JSON content type whose body does not decode is followed by the
\* next endpoint, so this is violated.
LegacyStopsAtFirst200 ==
    \A p \in Tasks :
        LET sent == SpecRequests(p) IN
        /\ sent # <<>> => loc[p].g_stage \in {"legacy", "legacy_found", "not_found"}
        /\ \A k \in 1..Len(sent) :
            /\ k <= NumSpecEndpoints
            /\ sent[k].url = SpecUrl(k, loc[p].g_version[1])
            /\ k < Len(sent) => sent[k].status \notin Http200
        /\ loc[p].g_stage = "legacy_found"
            => /\ sent[Len(sent)].status \in Http200
               /\ loc[p].rvSpec[1].endpoint = Some(sent[Len(sent)].url)
        /\ loc[p].g_stage = "not_found"
            => /\ Len(sent) = NumSpecEndpoints
               /\ \A k \in 1..Len(sent) : sent[k].status \notin Http200
               /\ loc[p].rvSpec = Some(None)

\* C12: a specification body that came with HTTP 200, from the link of a
\* plain file or from a legacy endpoint alike, ends the lookup with a result:
\* structured JSON when the content type is JSON and the body decodes, raw text
\* in every other case, a JSON content type with a body that does not decode
\* included.  A legacy endpoint's body that does not decode gives no result,
\* so this is violated.
BodyClassifiedAlike ==
    \A p \in Tasks : \A i \in Entries(p) :
        (trail[p][i].kind \in {"file", "spec"} /\ trail[p][i].body # None)
            => /\ i = Len(trail[p])
               /\ loc[p].rvSpec # None
               /\ loc[p].rvSpec[1] # None
               /\ loc[p].rvSpec[1].content.json
                      = IF trail[p][i].body = Some("json") THEN "object" ELSE "string"

\* What the extractor has just returned to its caller for the archive it
\* opened: the entries, their names, and the name of the entry it read.
Extracting(p) == Top(p) = "spec_zip_ret" /\ loc[p].x_zip # None
Listing(p) == [i \in 1..Len(loc[p].x_zip[1]) |-> loc[p].x_zip[1][i].name]
Listed(p) == {Listing(p)[i] : i \in 1..Len(Listing(p))}
WithExt(p, ext) == {i \in 1..Len(Listing(p)) : Ext(Listing(p)[i]) = ext}
Picked(p) == loc[p].rvSpec[1][1].file_name[1]
MainListed(p) == loc[p].x_main # "" /\ loc[p].x_main \in Listed(p)

\* C13: the entry the extractor reads is the declared main file when one is
\* declared and listed in the archive, else an entry with a YAML/YML
\* extension if there is one, else an entry with a JSON extension if there is
\* one, else the first entry of the listing; an archive without entries gives
\* not_found.  With no main file declared, {a.txt, spec.yaml, spec.json}
\* gives spec.yaml, {a.txt, spec.json} gives spec.json and {a.txt} gives a.txt.
SelectionFollowsPreference ==
    \A p \in Tasks : Extracting(p) =>
        IF Listing(p) = <<>> THEN loc[p].rvSpec = Some(None)
        ELSE /\ loc[p].rvSpec[1] # None
             /\ Picked(p) \in Listed(p)
             /\ IF MainListed(p) THEN Picked(p) = loc[p].x_main
                ELSE IF WithExt(p, "yaml") # {} THEN Ext(Picked(p)) = "yaml"
                ELSE IF WithExt(p, "json") # {} THEN Ext(Picked(p)) = "json"
                ELSE Picked(p) = Listing(p)[1]
             /\ loc[p].x_main = ""
                 => /\ Listed(p) = {"a.txt", "spec.yaml", "spec.json"}
                        => Picked(p) = "spec.yaml"
                    /\ Listed(p) = {"a.txt", "spec.json"} => Picked(p) = "spec.json"
                    /\ Listed(p) = {"a.txt"} => Picked(p) = "a.txt"

\* C13 witness: no main file is declared, the archive lists a.txt, spec.json
\* and spec.yaml in this order, and the extractor has read spec.yaml.
YamlBeatsEarlierJson ==
    \E p \in Tasks :
        /\ Extracting(p)
        /\ loc[p].x_main = ""
        /\ Listing(p) = <<"a.txt", "spec.json", "spec.yaml">>
        /\ Picked(p) = "spec.yaml"

\* C14: when no listed main file is declared and the archive holds several
\* entries with a YAML/YML extension, the extractor reads the first of them
\* in listing order; with no such entry and several JSON entries, the first
\* JSON entry.  The loop keeps the last entry of each kind, so this is
\* violated.
FirstOfSeveralSelected ==
    \A p \in Tasks : (Extracting(p) /\ Listing(p) # <<>> /\ ~MainListed(p)) =>
        LET yamls == WithExt(p, "yaml")
            jsons == WithExt(p, "json")
        IN /\ yamls # {} => Picked(p) = Listing(p)[CHOOSE i \in yamls : \A j \in yamls : i <= j]
           /\ (yamls = {} /\ jsons # {})
                  => Picked(p) = Listing(p)[CHOOSE i \in jsons : \A j \in jsons : i <= j]

\* C15: every result of the extractor carries the name of the entry it read
\* and the listing of all the entries of the archive; it is structured JSON
\* exactly when that name ends in .json and the entry's text parses as JSON,
\* and raw text holding the entry's text in every other case.
ResultCarriesEntry ==
    \A p \in Tasks : (Extracting(p) /\ loc[p].rvSpec[1] # None) =>
        LET result == loc[p].rvSpec[1][1]
            entry == Opened(loc[p].x_zip[1], Picked(p))
        IN /\ result.file_name # None
           /\ Picked(p) \in Listed(p)
           /\ result.files_in_zip = Some(Listing(p))
           /\ result.type = IF Ext(Picked(p)) = "json" /\ Parses(entry.text)
                             THEN "openapi_json" ELSE "openapi_yaml"
           /\ result.content = IF result.type = "openapi_json" THEN Loads(entry.text)
                                ELSE TextValue(entry.text)

\* C15 witness: the extractor has read an entry named spec.json whose text
\* does not parse, from an archive of three entries, and returned raw text.
UnparsableJsonEntryIsText ==
    \E p \in Tasks :
        /\ Extracting(p)
        /\ loc[p].rvSpec[1] # None
        /\ Len(Listing(p)) = 3
        /\ Picked(p) = "spec.json"
        /\ ~Parses(Opened(loc[p].x_zip[1], "spec.json").text)
        /\ loc[p].rvSpec[1][1].type = "openapi_yaml"

\* The declared files phase 2 requests: a classifier of the list and a link.
Candidates(files) ==
    {i \in 1..Len(files) : Rank(files[i].classifier) # 0 /\ files[i].externalLink # ""}

LastEntry(p) == trail[p][Len(trail[p])]

\* C16: when the download of an archive fails or what it brings is no valid
\* archive, the extractor returns not_found to get_asset_specification, which
\* does not end the lookup there: it requests the next candidate file, and
\* phase 3 starts once every candidate file was requested without a result.
BadArchiveGoesOn ==
    \A p \in Tasks :
        /\ (Top(p) = "spec_zip_ret" /\ LastEntry(p).status = "failed")
              => loc[p].rvSpec = Some(None)
        /\ (Top(p) = "tool_ret" /\ loc[p].op = "specification")
              => ~(LastEntry(p).kind = "file" /\ LastEntry(p).status = "failed")
        /\ (loc[p].g_stage \in {"legacy", "legacy_found", "not_found"} /\ loc[p].g_files # None)
              => /\ Len(FileRequests(p)) = Cardinality(Candidates(loc[p].g_files[1]))
                 /\ \A k \in 1..Len(FileRequests(p)) : FileRequests(p)[k].status = "failed"
        /\ loc[p].g_stage = "files"
              => \A k \in 1..(Len(FileRequests(p)) - 1) :
                     FileRequests(p)[k].status = "failed"

\* C16 witness: the asset declares two archives, neither download gave a
\* valid archive, both were requested and a legacy endpoint gave the result.
TwoBadArchivesThenLegacy ==
    \E p \in Tasks :
        /\ Top(p) = "tool_ret"
        /\ loc[p].g_stage = "legacy_found"
        /\ loc[p].g_files # None
        /\ Len(loc[p].g_files[1]) = 2
        /\ \A i \in 1..2 : loc[p].g_files[1][i].packaging = "zip"
        /\ [k \in 1..Len(FileRequests(p)) |-> FileRequests(p)[k].status] = <<"failed", "failed">>

\* What search_assets has just returned to its caller, and the body it
\* decoded when the request succeeded.
Searched(p) == loc[p].rvAssets # None /\ LastEntry(p).kind = "search"
Decoded(p) == Searched(p) /\ loc[p].s_data # None

\* The four bodies that carry the list l.
Envelopes(l) ==
    {JsonArray(l)} \cup {JsonObject(k :> JsonArray(l)) : k \in {"assets", "data", "items"}}

\* C17: for every list of assets, the empty one included, search returns
\* that list in its order whether the body is the bare array or the map that
\* holds it under assets, under data or under items.
EnvelopesAgree ==
    \A p \in Tasks : Decoded(p) =>
        \A l \in SearchLists :
            loc[p].s_data[1] \in Envelopes(l) => loc[p].rvAssets = Some(l)

\* C17 witness: the body was the map holding a list of two assets under
\* items, and search has returned the two in their order.
ItemsEnvelopeUnwrapped ==
    \E p \in Tasks : \E l \in SearchLists :
        /\ Decoded(p)
        /\ Len(l) = 2
        /\ loc[p].s_data[1] = JsonObject("items" :> JsonArray(l))
        /\ loc[p].rvAssets = Some(l)

\* The value a map holds under the first of assets, data, items it has.
FirstKeyed(members) ==
    IF "assets" \in DOMAIN members THEN members["assets"]
    ELSE IF "data" \in DOMAIN members THEN members["data"]
    ELSE members["items"]

Keyed(members) == DOMAIN members \cap {"assets", "data", "items"} # {}

\* C18 as stated: for a map, search returns the value under assets if the map
\* has that key, else the one under data, else the one under items, and a map
\* with none of them as the one element of the sequence returned; search
\* returns normally.  An empty map gives the empty sequence and a null under
\* the key gives the empty sequence, so this is violated.
MapGivesFirstKeyedOrItself ==
    \A p \in Tasks : (Decoded(p) /\ loc[p].s_data[1].json = "object") =>
        LET data == loc[p].s_data[1] IN
        JsonArray(loc[p].rvAssets[1])
            = IF Keyed(data.members) THEN FirstKeyed(data.members) ELSE JsonArray(<<data>>)

\* C18: for a map, search returns the list under assets if the map has that
\* key, else the one under data, else the one under items, and the empty
\* sequence when what that key holds is no list; a map with none of the three
\* keys is the one element of the sequence returned unless it is empty, and
\* the empty map gives the empty sequence; search returns normally.
MapGivesFirstKeyedListOrItself ==
    \A p \in Tasks : (Decoded(p) /\ loc[p].s_data[1].json = "object") =>
        LET data == loc[p].s_data[1] IN
        loc[p].rvAssets[1]
            = IF Keyed(data.members)
              THEN IF FirstKeyed(data.members).json = "array"
                   THEN FirstKeyed(data.members).elems ELSE <<>>
              ELSE IF DOMAIN data.members = {} THEN <<>> ELSE <<data>>

\* C18 witness: the map held one list under assets and another under data,
\* and search has returned the one under assets.
AssetsBeatsData ==
    \E p \in Tasks :
        /\ Decoded(p)
        /\ loc[p].s_data[1].json = "object"
        /\ {"assets", "data"} \subseteq DOMAIN loc[p].s_data[1].members
        /\ loc[p].s_data[1].members["assets"].json = "array"
        /\ loc[p].s_data[1].members["assets"] # loc[p].s_data[1].members["data"]
        /\ loc[p].rvAssets = Some(loc[p].s_data[1].members["assets"].elems)

\* C19: when the search request fails, search returns the empty sequence to
\* its caller and raises nothing: the caller holds what it holds after a
\* search that succeeded with no asset.
FailedSearchIsEmpty ==
    \A p \in Tasks :
        /\ (Top(p) = "tool_ret" /\ loc[p].op = "search") => Searched(p)
        /\ (Searched(p) /\ LastEntry(p).status = "failed")
              => /\ loc[p].rvAssets = Some(<<>>)
                 /\ loc[p].rvAssets = Some(Normalized(JsonArray(<<>>)))

\* C19 witness: the search request of a search tool call failed and
\* call_tool holds the empty sequence.
FailedSearchReturned ==
    \E p \in Tasks :
        /\ Top(p) = "tool_ret"
        /\ loc[p].op = "search"
        /\ LastEntry(p).kind = "search"
        /\ LastEntry(p).status = "failed"
        /\ loc[p].rvAssets = Some(<<>>)

\* A step in which a request of p is answered with a failure.
FailsAt(p, label) ==
    /\ Top(p) = label
    /\ Len(trail'[p]) = Len(trail[p])
    /\ LastEntry(p).status = "pending"
    /\ trail'[p][Len(trail[p])].status = "failed"

\* The step goes on at `labels` inside the operation that sent the request.
GoesOn(p, labels) == pc'[p] = labels \o Tail(pc[p])

\* A failed call is absorbed where it was issued: the cascade of
\* get_asset_details and the one of the legacy endpoints go on to their next
\* endpoint, the loop over the files to the next file, the extractor and the
\* search return not_found and [] to their caller.
FailureAbsorbed(p) ==
    /\ FailsAt(p, "details_wait")
          => GoesOn(p, <<"details_try">>) /\ loc'[p].d_ep = loc[p].d_ep + 1
    /\ FailsAt(p, "spec_legacy_wait")
          => GoesOn(p, <<"spec_legacy">>) /\ loc'[p].g_ep = loc[p].g_ep + 1
    /\ FailsAt(p, "spec_direct_wait")
          => GoesOn(p, <<"spec_scan">>) /\ loc'[p].g_pos = loc[p].g_pos + 1
    /\ FailsAt(p, "extract_wait")
          => GoesOn(p, <<>>) /\ loc'[p].rvSpec = Some(None)
    /\ FailsAt(p, "search_wait")
          => GoesOn(p, <<>>) /\ loc'[p].rvAssets = Some(<<>>)

\* The last n requests of a sequence all went without an HTTP 200.
LastFailed(sent, n) ==
    /\ Len(sent) >= n
    /\ \A k \in (Len(sent) - n + 1)..Len(sent) : sent[k].status = "failed"

\* Once every alternative is exhausted the operation returns not_found.
ExhaustedIsNotFound ==
    \A p \in Tasks :
        /\ (loc[p].d_stage = "fallback" /\ loc[p].rvDetails # None)
              => /\ LastFailed(DetailRequests(p), NumDetailEndpoints)
                 /\ loc[p].rvDetails = Some(FirstMatch(loc[p].d_assets[1]))
        /\ loc[p].g_stage = "not_found"
              => /\ LastFailed(SpecRequests(p), NumSpecEndpoints)
                 /\ loc[p].rvSpec = Some(None)
        /\ (Top(p) = "tool_ret" /\ loc[p].op = "specification")
              => /\ loc[p].rvSpec # None
                 /\ loc[p].g_stage \in {"file_found", "legacy_found", "not_found"}

\* C20: no failure of a single HTTP call makes get_asset_details,
\* get_asset_specification or the extractor raise to its caller: the failing
\* call is absorbed where it was issued, the operation goes on to the next
\* alternative of its cascade, and it returns not_found once all of them are
\* exhausted.
FailuresNeverRaise ==
    /\ []ExhaustedIsNotFound
    /\ [][\A p \in Tasks : FailureAbsorbed(p)]_vars

\* C20 witness: the search for the version, the first two detail endpoints,
\* the download of every declared file and every legacy endpoint failed, and
\* the tool call holds not_found.
EverythingFailedNotFound ==
    \E p \in Tasks :
        /\ Top(p) = "tool_ret"
        /\ loc[p].g_stage = "not_found"
        /\ loc[p].rvSpec = Some(None)
        /\ \A i \in Entries(p) :
               trail[p][i].kind \in {"search", "file", "spec"} => trail[p][i].status = "failed"
        /\ \E i \in Entries(p) : trail[p][i].kind = "detail" /\ trail[p][i].status = "failed"
        /\ {"detail", "search", "file", "spec"} \subseteq {trail[p][i].kind : i \in Entries(p)}


\* ------------------------------------------------------- analyzer claims
Analyzed(p) == loc[p].a_out # None /\ loc[p].a_out[1].outcome = "analyzed"
Report(p) == loc[p].a_out[1]
PathsMap(p) == SpecContent(loc[p].a_spec[1])[1].members["paths"].members
PairSet(p) == {<<path, method>> \in (DOMAIN PathsMap(p)) \X MethodKeys :
                  method \in DOMAIN PathsMap(p)[path].members}

UpperCased ==
    [method \in MethodKeys |->
        CASE method \in {"get", "GET"} -> "GET"
          [] method = "post" -> "POST"
          [] method = "put" -> "PUT"
          [] method = "patch" -> "PATCH"
          [] method = "delete" -> "DELETE"
          [] method = "options" -> "OPTIONS"]

RECURSIVE Total(_)
Total(count) ==
    IF DOMAIN count = {} THEN 0
    ELSE LET key == CHOOSE k \in DOMAIN count : TRUE
         IN  count[key] + Total([k \in DOMAIN count \ {key} |-> count[k]])

ExamplePaths ==
    [path \in {"/accounts", "/accounts/{id}"} |->
        JsonObject([method \in IF path = "/accounts" THEN {"get", "post"}
                               ELSE {"get", "delete"} |-> JsonObject(<<>>)])]

ExampleHistogram ==
    [method \in {"GET", "POST", "DELETE"} |-> IF method = "GET" THEN 2 ELSE 1]

\* C21: the histogram of an analysis counts every (path, method) pair of the
\* paths map exactly once, under the upper-cased method name, so its values
\* sum to the number of endpoint records; for the paths
\* {/accounts: {get, post}, /accounts/{id}: {get, delete}} it is
\* {GET: 2, POST: 1, DELETE: 1}.
HistogramCountsEveryPairOnce ==
    \A p \in Tasks :
        Analyzed(p)
        => /\ DOMAIN Report(p).methods_count = {UpperCased[pair[2]] : pair \in PairSet(p)}
           /\ \A method \in DOMAIN Report(p).methods_count :
                 Report(p).methods_count[method]
                     = Cardinality({pair \in PairSet(p) : UpperCased[pair[2]] = method})
           /\ Total(Report(p).methods_count) = Len(Report(p).endpoint_details)
           /\ PathsMap(p) = ExamplePaths => Report(p).methods_count = ExampleHistogram

ExampleAnalyzed ==
    \E p \in Tasks :
        /\ Analyzed(p)
        /\ PathsMap(p) = ExamplePaths
        /\ Report(p).methods_count = ExampleHistogram
        /\ Len(Report(p).endpoint_details) = 4

\* A path with a brace-delimited parameter segment.
HasParameter(path) == path \in {"/accounts/{id}", "/users/{userId}"}

ByShape(endpoint) ==
    CASE endpoint.method = "GET" /\ HasParameter(endpoint.path) -> Some("Consulta individual")
      [] endpoint.method = "GET" /\ ~HasParameter(endpoint.path) -> Some("Listagem")
      [] endpoint.method = "POST" -> Some("Criação")
      [] endpoint.method \in {"PUT", "PATCH"} -> Some("Atualização")
      [] endpoint.method = "DELETE" -> Some("Exclusão")
      [] OTHER -> None

LinesOf(p, endpoint) ==
    {Report(p).crud_patterns[k] : k \in DOMAIN Report(p).crud_patterns}
        \cap [label : {"Consulta individual", "Listagem", "Criação", "Atualização", "Exclusão"},
              method : {endpoint.method}, path : {endpoint.path}]

\* C22: every endpoint record gets exactly one interaction pattern from its
\* method and the shape of its path: GET on a path with a brace-delimited
\* parameter segment, whatever the parameter's name, is get_by_id, GET on
\* another path is list, POST is create, PUT or PATCH is update, DELETE is
\* delete, and any other method gets none.
ClassifiedByShape ==
    \A p \in Tasks :
        Analyzed(p)
        => \A k \in DOMAIN Report(p).endpoint_details :
             LET endpoint == Report(p).endpoint_details[k]
             IN  LinesOf(p, endpoint)
                   = IF ByShape(endpoint) = None THEN {}
                     ELSE {[label |-> ByShape(endpoint)[1], method |-> endpoint.method,
                            path |-> endpoint.path]}


\* The pattern lines of the endpoint records of an analysis.
LinesOfRecords(p) ==
    {Pattern(Report(p).endpoint_details[k])[1] :
        k \in {i \in DOMAIN Report(p).endpoint_details :
                  Pattern(Report(p).endpoint_details[i]) # None}}

\* C23 as stated: the pattern set returned is exactly the set of distinct
\* patterns of the endpoint records, none missing, however many endpoints
\* the specification has.
PatternSetComplete ==
    \A p \in Tasks : Analyzed(p) => Report(p).shown = LinesOfRecords(p)

\* C23: the pattern set returned holds only patterns of the endpoint records,
\* each once; it holds all of them when they are at most MaxPatterns, and
\* MaxPatterns of them otherwise.
PatternSetUpToFive ==
    \A p \in Tasks :
        Analyzed(p)
        => /\ Report(p).shown \subseteq LinesOfRecords(p)
           /\ Cardinality(LinesOfRecords(p)) <= MaxPatterns
                 => Report(p).shown = LinesOfRecords(p)
           /\ Cardinality(LinesOfRecords(p)) > MaxPatterns
                 => Cardinality(Report(p).shown) = MaxPatterns

SixPatternsFiveShown ==
    \E p \in Tasks :
        /\ Analyzed(p)
        /\ Cardinality(LinesOfRecords(p)) = 6
        /\ Cardinality(Report(p).shown) = 5
        /\ \E line \in LinesOfRecords(p) \ Report(p).shown : line.label = "Criação"


\* C24: for every JSON document D with a paths map, the analysis of what the
\* extractor makes of the archive that holds D as its .json entry reports the
\* same endpoint count as the analysis of D itself.
PackedCountsAlike ==
    \A p \in Tasks :
        \A doc \in remote.packed :
            /\ loc[p].a_out # None
            /\ "paths" \in DOMAIN doc.members
            /\ loc[p].a_spec # None
            /\ "json" \notin DOMAIN loc[p].a_spec[1]
            /\ loc[p].a_spec[1].file_name = Some("spec.json")
            => /\ Report(p).outcome = Analysis(Some(doc)).outcome
               /\ Report(p).total = Analysis(Some(doc)).total

PackedPathsCounted ==
    \E p \in Tasks :
        /\ Analyzed(p)
        /\ "json" \notin DOMAIN loc[p].a_spec[1]
        /\ loc[p].a_spec[1].file_name = Some("spec.json")
        /\ remote.packed = {JsonObject([key \in {"paths"} |-> JsonObject(ExamplePaths)])}
        /\ loc[p].a_spec[1].content \in remote.packed
        /\ Report(p).total = 2
        /\ Analysis(Some(loc[p].a_spec[1].content)).total = 2

\* C30: the endpoint count an analysis reports is the number of its endpoint
\* records, that is of the (path, method) pairs of the paths map, and so the
\* sum of its histogram, also when a path declares more than one method.
CountIsNumberOfRecords ==
    \A p \in Tasks :
        Analyzed(p)
        => /\ Report(p).total = Len(Report(p).endpoint_details)
           /\ Report(p).total = Cardinality(PairSet(p))
           /\ Report(p).total = Total(Report(p).methods_count)


\* --------------------------------------------------------- result claims
\* C25: every value get_asset_specification returns, whichever phase made it,
\* is tagged as structured JSON or as raw text and carries a classifier; it
\* is tagged structured JSON exactly when its content is a parsed document
\* and raw text exactly when its content is a string.
EveryResultTagged ==
    \A p \in Tasks :
        /\ Top(p) = "tool_ret"
        /\ loc[p].op = "specification"
        /\ loc[p].rvSpec # None
        /\ loc[p].rvSpec[1] # None
        => LET result == loc[p].rvSpec[1]
           IN  /\ result.type \in {"openapi_json", "openapi_yaml"}
               /\ result.classifier # None
               /\ result.type = "openapi_json" <=> result.content.json = "object"
               /\ result.type = "openapi_yaml" <=> result.content.json = "string"


\* C26: within one details or specification tool call no catalog request is
\* sent to a URL that an earlier request of the call went to, also when the
\* call has no version and resolves one before it looks the details up.
NoUrlRequestedTwice ==
    \A p \in Tasks :
        loc[p].op \in {"details", "specification"}
        => \A i, j \in Entries(p) :
             /\ i < j
             /\ trail[p][i].kind \in Catalog
             /\ trail[p][j].kind = trail[p][i].kind
             => trail[p][j].url # trail[p][i].url


\* -------------------------------------------------------- session claims
Authenticated(p) ==
    /\ Top(p) = "auth_wait"
    /\ Top(p)' # "auth_wait"
    /\ loc'[p].rvAuth = Some(TRUE)

\* C27: the Session is consistent at every point: token and expires_at are
\* both absent or both set; only a successful renewal changes them, and a
\* token once held is never cleared.
SessionConsistent ==
    /\ [](access_token = None <=> token_expires_at = None)
    /\ [][/\ session' # session => \E p \in Procs : Authenticated(p)
          /\ access_token # None => access_token' # None]_vars

LastToken(p) ==
    trail[p][CHOOSE i \in Entries(p) :
                 /\ trail[p][i].kind = "token"
                 /\ \A j \in Entries(p) : trail[p][j].kind = "token" => j <= i]

\* C28: a successful token response with expires_in = E received at time T
\* stores expires_at = T + E - 300, E being 3600 when the response has none:
\* 300 seconds before the declared expiry and never later than it.
ExpiryStoredWithBuffer ==
    [][\A p \in Procs :
          Authenticated(p) /\ access_token' # None
          => LET received == LastToken(p)'.body[1]
                 E == IF received = None THEN 3600 ELSE received[1]
             IN  /\ token_expires_at' = Some(now + E - 300)
                 /\ token_expires_at'[1] + 300 = now + E
                 /\ token_expires_at'[1] <= now + E]_vars

ShortGrantStored ==
    \E p \in Procs :
        /\ loc[p].rvAuth = Some(TRUE)
        /\ now = TickLen
        /\ LastToken(p).status = "ok"
        /\ LastToken(p).body = Some(Some(299))
        /\ token_expires_at = Some(TickLen - 1)


\* ---------------------------------------------------- termination claims
Count(p, kind) == Cardinality({i \in Entries(p) : trail[p][i].kind = kind})

\* The detail requests of one get_asset_details call: a call begins with an
\* _ensure_authenticated, so no two of them are in one run between those.
DetailRuns(p) ==
    {{k \in i..Len(trail[p]) :
         /\ trail[p][k].kind = "detail"
         /\ \A j \in (i + 1)..k : trail[p][j].kind # "ensure"} :
       i \in {e \in Entries(p) : trail[p][e].kind = "ensure"}}

RequestsBounded ==
    \A p \in Tasks :
        /\ \A run \in DetailRuns(p) : Cardinality(run) <= 4
        /\ loc[p].op = "details" => Count(p, "detail") <= 4 /\ Count(p, "search") <= 2
        /\ loc[p].op = "specification"
             => /\ Count(p, "detail") <= 2 * 4
                /\ Count(p, "search") <= 2 * 2
                /\ Count(p, "spec") <= 5
                /\ Count(p, "file") <= IF loc[p].g_files = None THEN 0
                                       ELSE Len(loc[p].g_files[1])

NoStepBack ==
    \A p \in Tasks :
        pc[p] # <<>> /\ pc'[p] # <<>>
        => /\ Len(trail'[p]) >= Len(trail[p])
           /\ loc'[p].g_pos >= loc[p].g_pos \/ Top(p) = "spec_files"
           /\ loc'[p].g_ep >= loc[p].g_ep \/ Top(p) = "spec_files"
           /\ loc'[p].d_ep >= loc[p].d_ep \/ Top(p) = "details_begin"

\* C29: when every request is answered in the end, every engine operation
\* terminates after a bounded number of requests: one get_asset_details call
\* sends at most 4 detail requests and 2 searches, one
\* get_asset_specification call at most one request for each declared file
\* and 5 to the legacy endpoints, and no step goes back to an earlier one.
EngineTerminates ==
    /\ []RequestsBounded
    /\ [][NoStepBack]_vars
    /\ \A p \in Tasks : (Top(p) # "idle") ~> (Top(p) = "idle")

LongestSpecificationCall ==
    \E p \in Tasks :
        /\ loc[p].op = "specification"
        /\ Top(p) = "tool_ret"
        /\ loc[p].rvSpec = Some(None)
        /\ Count(p, "detail") = 2 * 4
        /\ Count(p, "search") = 3
        /\ Count(p, "spec") = 5

====
